---- MODULE Spec2Model ----
(***************************************************************************)
(* MindVault.  Four parts of the application are followed here:            *)
(*   - the AI proxy route (src/unnamed/part_000, served at /api/gemini):   *)
(*     one POST request from its arrival to the response the route         *)
(*     returns, with the generative-AI provider as the environment that    *)
(*     resolves each outbound fetch;                                       *)
(*   - the AI panel of the dashboard (handleAiAction and its buttons,      *)
(*     src/app/dashboard/page.tsx);                                        *)
(*   - the invite-issuing route (src/app/api/invite/accept/route.ts,       *)
(*     lines 74-194);                                                      *)
(*   - the note handlers of the dashboard (handleSaveNote,                 *)
(*     handleDeleteNote, src/app/dashboard/page.tsx);                      *)
(*   - the functions and the loaders of the dashboard that stand on their  *)
(*     own (parseTags, buildVaultContext, fetchNotes, fetchWorkspaces)     *)
(*     and the invite-accepting route, each introduced where it is         *)
(*     followed.                                                           *)
(* Each part has its own specification; the variables of the other parts   *)
(* rest while it runs.                                                     *)
(*                                                                         *)
(* Strings are sequences of tokens.  A token is one character (" ", ",",   *)
(* a newline, a backslash, "n", "#", "a", ...) or one fixed phrase of the  *)
(* source (a template, a message, a model identifier) that holds no        *)
(* whitespace at its ends and is never split.  "" is <<>>.                 *)
(* An optional value (a JSON field, an environment variable) is None or    *)
(* Some(v).                                                                *)
(***************************************************************************)
EXTENDS Integers, Sequences, FiniteSets, TLC

\* The AI proxy route.
VARIABLES
    apiKey,          \* process.env.GEMINI_API_KEY
    geminiModel,     \* process.env.GEMINI_MODEL
    request,         \* the request's JSON body, None when it is not valid JSON
    pc,              \* the handler's position
    prompt,          \* const prompt (line 59)
    fallbackModels,  \* const fallbackModels (lines 65-67)
    modelIndex,      \* let modelIndex (line 87)
    response,        \* let response (line 86): the last resolved fetch
    calls,           \* the provider calls issued so far, in order
    returned         \* the responses the route has returned to its caller

\* The dashboard: the state both the AI panel and the note handlers read.
VARIABLES
    composer         \* useState composer (line 482): content, tags, file

\* The dashboard: the AI panel.
VARIABLES
    aiEnabled,       \* activePlan?.ai_enabled ?? false (line 510)
    aiTargetNote,    \* the note the panel works on, None for the draft
    aiPrompt,        \* useState aiPrompt
    aiQuestion,      \* useState aiQuestion
    notesContext,    \* what buildVaultContext(notes) yields (line 1244)
    aiBusy,          \* useState aiBusy (line 489)
    aiError,         \* useState aiError
    aiResults,       \* useState aiResults, the newest first
    aiInFlight       \* the handleAiAction calls awaiting /api/gemini

\* The invite-issuing route and the tables it reads and writes.
VARIABLES
    workspace_members,  \* table workspace_members: (workspace, user) -> role
    workspace_invites,  \* table workspace_invites, in insertion order
    invitePayload,      \* the request's JSON body, None when not valid JSON
    authorization,      \* the request's authorization header
    siteUrl,            \* NEXT_PUBLIC_SITE_URL || SITE_URL || ""
    invitePc,           \* the handler's position
    userData,           \* const userData.user (lines 114-115)
    inviteReturned      \* the responses the route has returned

\* The dashboard: the note handlers, the notes table and the media bucket.
VARIABLES
    supabase,           \* the client of line 438, None when not configured
    session,            \* useState session (line 443)
    workspaces,         \* useState workspaces (line 454)
    activeWorkspaceId,  \* useState activeWorkspaceId (line 455)
    editingNote,        \* useState editingNote
    removeAttachment,   \* useState removeAttachment
    noteLimit,          \* activePlan?.note_limit (line 509)
    noteCount,          \* useState noteCount
    busyAction,         \* useState busyAction
    actionError,        \* useState actionError
    notesTable,         \* table notes
    media,              \* the objects of the bucket MEDIA_BUCKET
    lastCalls           \* the storage and table calls of the last handler run

\* The tag functions of the dashboard (parseTags, formatTagInput).
VARIABLES
    tagValue,           \* the text of the tags field
    tagSteps            \* what parseTags and formatTagInput made of it

\* The invite-accepting route (src/app/api/invite/accept/route.ts, lines
\* 10-73): the requests being served, each with its own locals.
VARIABLES
    acceptRuns          \* request -> body, header, position, locals, response

\* The dashboard: fetchNotes (lines 727-829) and the effect that calls it
\* (lines 833-840).
VARIABLES
    sortOrder,          \* useState sortOrder (line 479)
    notes,              \* useState notes (line 470): the ids, in order
    notesError,         \* useState notesError
    fetchDeps,          \* the settings the effect of line 833 last ran with
    fetchTimer,         \* const timer (line 835): the fetchNotes it will call
    fetchRuns           \* the fetchNotes calls waiting at line 767

\* The dashboard: fetchWorkspaces (lines 621-685) and the workspaces table.
VARIABLES
    workspacesTable,    \* table workspaces
    workspaceError,     \* useState workspaceError
    workspaceRuns       \* the fetchWorkspaces calls: position and locals

\* The dashboard: buildVaultContext (lines 546-567).
VARIABLES
    vaultNotes,         \* the notes handed to buildVaultContext
    vaultContext        \* what it returned, None before the call

routeVars == <<apiKey, geminiModel, request, pc, prompt, fallbackModels,
               modelIndex, response, calls, returned>>

panelVars == <<aiEnabled, aiTargetNote, aiPrompt, aiQuestion, notesContext,
               aiBusy, aiError, aiResults, aiInFlight>>

inviteVars == <<workspace_members, workspace_invites, invitePayload,
                authorization, siteUrl, invitePc, userData, inviteReturned>>

noteVars == <<supabase, session, workspaces, activeWorkspaceId, editingNote,
              removeAttachment, noteLimit, noteCount, busyAction, actionError,
              notesTable, media, lastCalls>>

tagVars == <<tagValue, tagSteps>>

\* The parts introduced after the note handlers.
acceptVars == <<acceptRuns>>

fetchVars == <<sortOrder, notes, notesError, fetchDeps, fetchTimer,
               fetchRuns>>

workspaceVars == <<workspacesTable, workspaceError, workspaceRuns>>

vaultVars == <<vaultNotes, vaultContext>>

laterVars == <<tagVars, acceptVars, fetchVars, workspaceVars, vaultVars>>

vars == <<routeVars, composer, panelVars, inviteVars, noteVars, laterVars>>

None == <<>>
Some(v) == <<v>>
Get(o) == o[1]

----------------------------------------------------------------------------
(* The state in which each part rests while another part runs.             *)

\* const emptyDraft, lines 343-349 (title and reminderAt are left out: no
\* branch of the handlers followed here depends on them).
emptyDraft == [content |-> <<>>, tags |-> <<>>, file |-> None]

TagsIdle ==
    /\ tagValue = <<>>
    /\ tagSteps = <<>>

AcceptIdle == acceptRuns = <<>>

FetchIdle ==
    /\ sortOrder = "newest"
    /\ notes = <<>>
    /\ notesError = None
    /\ fetchDeps = None
    /\ fetchTimer = None
    /\ fetchRuns = <<>>

WorkspacesIdle ==
    /\ workspacesTable = {}
    /\ workspaceError = None
    /\ workspaceRuns = <<>>

VaultIdle ==
    /\ vaultNotes = <<>>
    /\ vaultContext = None

LaterIdle ==
    TagsIdle /\ AcceptIdle /\ FetchIdle /\ WorkspacesIdle /\ VaultIdle

RouteIdle ==
    /\ apiKey = None
    /\ geminiModel = None
    /\ request = None
    /\ pc = "received"
    /\ prompt = <<>>
    /\ fallbackModels = <<>>
    /\ modelIndex = 0
    /\ response = None
    /\ calls = <<>>
    /\ returned = <<>>

PanelIdle ==
    /\ aiEnabled = FALSE
    /\ aiTargetNote = None
    /\ aiPrompt = <<>>
    /\ aiQuestion = <<>>
    /\ notesContext = <<>>
    /\ aiBusy = None
    /\ aiError = None
    /\ aiResults = <<>>
    /\ aiInFlight = <<>>

InviteIdle ==
    /\ workspace_members = <<>>
    /\ workspace_invites = <<>>
    /\ invitePayload = None
    /\ authorization = None
    /\ siteUrl = <<>>
    /\ invitePc = "received"
    /\ userData = None
    /\ inviteReturned = <<>>

NotesIdle ==
    /\ supabase = None
    /\ session = None
    /\ workspaces = <<>>
    /\ activeWorkspaceId = None
    /\ editingNote = None
    /\ removeAttachment = FALSE
    /\ noteLimit = None
    /\ noteCount = 0
    /\ busyAction = FALSE
    /\ actionError = None
    /\ notesTable = {}
    /\ media = {}
    /\ lastCalls = <<>>

----------------------------------------------------------------------------
(* Characters and the string functions of the JavaScript runtime.          *)

NL == "\n"
BS == "\\"
Whitespace == {" ", NL}

RECURSIVE TrimStart(_)
TrimStart(s) ==
    IF s # <<>> /\ Head(s) \in Whitespace THEN TrimStart(Tail(s)) ELSE s

RECURSIVE TrimEnd(_)
TrimEnd(s) ==
    IF s # <<>> /\ s[Len(s)] \in Whitespace
    THEN TrimEnd(SubSeq(s, 1, Len(s) - 1))
    ELSE s

\* String.prototype.trim
Trim(s) == TrimEnd(TrimStart(s))

\* Mutant of Truthy: only undefined is falsy.
Truthy_DefinedOnly(o) == o # None

\* JavaScript truthiness of an optional string: undefined and "" are falsy.
Truthy(o) == o # None /\ Get(o) # <<>>

\* Mutant of At: the index is ignored and the first element is read.
At_First(arr, i) == IF arr # <<>> THEN arr[1] ELSE <<"undefined">>

\* arr[i] for a 0-based index i: undefined outside the array, which a
\* template literal prints as "undefined".
At(arr, i) == IF i + 1 \in 1..Len(arr) THEN arr[i + 1] ELSE <<"undefined">>

----------------------------------------------------------------------------
(* buildPrompt, lines 12-30.                                               *)

Actions == {"summarize", "improve", "tags", "generate", "ask"}

SummarizeTemplate ==
    <<"Summarize this note in 3 concise bullet points. No extra commentary:">>
ImproveHead == <<"Rewrite this note to improve clarity and structure. Use a">>
ImproveTail ==
    <<"tone. Return ONLY a single rewritten version (no headings, no bullet points, no multiple options). Keep it concise (max 2 short paragraphs) and preserve the original meaning:">>
TagsTemplate ==
    <<"Suggest 5 short tags for this note. Respond as a comma-separated list without hashtags:">>
GenerateTemplate ==
    <<"Write a concise draft note based on the following topic. Return ONLY the draft (no headings, no options):">>
AskHead ==
    <<"You are an assistant with access to the user's notes. Use the notes to answer the question.",
      NL,
      "If there are relevant notes, list them with their titles and a short reason. If not, say you could not find a relevant note.",
      NL, NL, "Notes:", NL>>
AskQuestion == <<NL, NL, "Question:", " ">>

\* payload.field ?? ""
OrEmpty(o) == IF o = None THEN <<>> ELSE Get(o)

\* Mutant of buildPrompt: the tone has no default.
buildPrompt_NoDefaultTone(payload) ==
    LET content == IF payload.content = None THEN <<>>
                   ELSE Trim(Get(payload.content))
        tone == IF payload.tone = None THEN "undefined"
                ELSE Get(payload.tone)
    IN  CASE payload.action = Some("summarize") ->
                SummarizeTemplate \o <<NL, NL>> \o content
          [] payload.action = Some("improve") ->
                ImproveHead \o <<" ", tone, " ">> \o ImproveTail
                    \o <<NL, NL>> \o content
          [] payload.action = Some("tags") ->
                TagsTemplate \o <<NL, NL>> \o content
          [] payload.action = Some("generate") ->
                GenerateTemplate \o <<NL, NL>> \o OrEmpty(payload.prompt)
          [] payload.action = Some("ask") ->
                AskHead \o OrEmpty(payload.notesContext)
                    \o AskQuestion \o OrEmpty(payload.question)
          [] OTHER -> content

\* Mutant of buildPrompt: an unrecognized action gives the empty prompt.
buildPrompt_DefaultEmpty(payload) ==
    LET content == IF payload.content = None THEN <<>>
                   ELSE Trim(Get(payload.content))
        tone == IF payload.tone = None THEN "professional"
                ELSE Get(payload.tone)
    IN  CASE payload.action = Some("summarize") ->
                SummarizeTemplate \o <<NL, NL>> \o content
          [] payload.action = Some("improve") ->
                ImproveHead \o <<" ", tone, " ">> \o ImproveTail
                    \o <<NL, NL>> \o content
          [] payload.action = Some("tags") ->
                TagsTemplate \o <<NL, NL>> \o content
          [] payload.action = Some("generate") ->
                GenerateTemplate \o <<NL, NL>> \o OrEmpty(payload.prompt)
          [] payload.action = Some("ask") ->
                AskHead \o OrEmpty(payload.notesContext)
                    \o AskQuestion \o OrEmpty(payload.question)
          [] OTHER -> <<>>

buildPrompt(payload) ==
    LET content == IF payload.content = None THEN <<>>
                   ELSE Trim(Get(payload.content))
        tone == IF payload.tone = None THEN "professional"
                ELSE Get(payload.tone)
    IN  CASE payload.action = Some("summarize") ->
                SummarizeTemplate \o <<NL, NL>> \o content
          [] payload.action = Some("improve") ->
                ImproveHead \o <<" ", tone, " ">> \o ImproveTail
                    \o <<NL, NL>> \o content
          [] payload.action = Some("tags") ->
                TagsTemplate \o <<NL, NL>> \o content
          [] payload.action = Some("generate") ->
                GenerateTemplate \o <<NL, NL>> \o OrEmpty(payload.prompt)
          [] payload.action = Some("ask") ->
                AskHead \o OrEmpty(payload.notesContext)
                    \o AskQuestion \o OrEmpty(payload.question)
          [] OTHER -> content

----------------------------------------------------------------------------
(* The route's responses (NextResponse.json) and its fixed messages.       *)

MissingKeyMsg == <<"Missing GEMINI_API_KEY.">>
MissingQuestionMsg == <<"Missing question.">>
MissingContextMsg == <<"Missing notes context.">>
EmptyPromptMsg == <<"Empty prompt.">>
RequestFailedMsg == <<"Gemini request failed.">>
NoContentMsg == <<"No content returned.">>

\* The messages of the errors the runtime throws: request.json() and
\* response.json() on a body that is not JSON, fetch on a network failure.
RequestJsonError == <<"Unexpected end of JSON input">>
ResponseJsonError == <<"Unexpected token < in JSON at position 0">>
FetchError == <<"fetch failed">>

Failure(status, message) ==
    [status |-> status, error |-> Some(message), text |-> None, tags |-> None]

Success(text, tags) ==
    [status |-> 200, error |-> None, text |-> Some(text), tags |-> tags]

\* The catch clause, lines 127-131: every thrown value here is an Error.
Catch(message) == Failure(500, message)

----------------------------------------------------------------------------
(* POST, lines 35-67: the checks before the first provider call.           *)

\* Mutant of Blank: the field is not trimmed.
Blank_Untrimmed(o) == o = None \/ Get(o) = <<>>

\* !body.field?.trim()
Blank(o) == o = None \/ Trim(Get(o)) = <<>>

\* Mutant of EarlyReturn: a blank content is rejected for every action.
EarlyReturn_ContentRequired(body) ==
    IF ~Truthy(apiKey) THEN Some(Failure(500, MissingKeyMsg))
    ELSE IF body.action = Some("ask") /\ Blank(body.question)
        THEN Some(Failure(400, MissingQuestionMsg))
    ELSE IF body.action = Some("ask") /\ Blank(body.notesContext)
        THEN Some(Failure(400, MissingContextMsg))
    ELSE IF Blank(body.content) \/ buildPrompt(body) = <<>>
        THEN Some(Failure(400, EmptyPromptMsg))
    ELSE None

\* Lines 37-62: the response of an early return, None when there is none.
EarlyReturn(body) ==
    IF ~Truthy(apiKey) THEN Some(Failure(500, MissingKeyMsg))
    ELSE IF body.action = Some("ask") /\ Blank(body.question)
        THEN Some(Failure(400, MissingQuestionMsg))
    ELSE IF body.action = Some("ask") /\ Blank(body.notesContext)
        THEN Some(Failure(400, MissingContextMsg))
    ELSE IF buildPrompt(body) = <<>>
        THEN Some(Failure(400, EmptyPromptMsg))
    ELSE None

FlashLatest == <<"gemini-1.5-flash-latest">>
DefaultModels == <<FlashLatest, <<"gemini-1.5-pro">>, <<"gemini-1.0-pro">>>>

\* Line 64: process.env.GEMINI_MODEL ?? "gemini-1.5-flash-latest"
PreferredModel == IF geminiModel = None THEN FlashLatest ELSE Get(geminiModel)

\* Lines 65-67
FallbackModels ==
    IF Truthy(geminiModel) THEN <<PreferredModel>>
    ELSE <<PreferredModel>> \o Tail(DefaultModels)

\* Lines 69-84: the outbound call, as the provider sees it.
requestModel(model, p) == [model |-> model, prompt |-> p]

----------------------------------------------------------------------------
(* POST, lines 89-126: after a fetch has resolved.                         *)

\* Response.ok
Ok(r) == r.status \in 200..299

\* Mutant of LoopCondition: every failed status is retried.
LoopCondition_AnyFailure ==
    /\ ~Ok(Get(response))
    /\ modelIndex < Len(fallbackModels) - 1

\* Mutant of LoopCondition: the index bound is off by one.
LoopCondition_OffByOne ==
    /\ ~Ok(Get(response))
    /\ Get(response).status = 404
    /\ modelIndex < Len(fallbackModels)

\* Line 89, the loop condition
LoopCondition ==
    /\ ~Ok(Get(response))
    /\ Get(response).status = 404
    /\ modelIndex < Len(fallbackModels) - 1

\* Mutant of UpstreamFailure: the provider's status is replaced by 500.
UpstreamFailure_Status500(r) ==
    Failure(500, IF r.body # <<>> THEN r.body ELSE RequestFailedMsg)

\* Lines 94-100
UpstreamFailure(r) ==
    Failure(r.status, IF r.body # <<>> THEN r.body ELSE RequestFailedMsg)

\* Mutant of ExtractText: the first part that holds a text is taken.
ExtractText_FirstWithText(data) ==
    LET cands == data.candidates
        c0 == IF cands = None \/ Get(cands) = <<>> THEN None
              ELSE Some(Get(cands)[1])
        content == IF c0 = None THEN None ELSE Get(c0).content
        parts == IF content = None THEN None ELSE Get(content).parts
        withText == IF parts = None THEN <<>>
                    ELSE SelectSeq(Get(parts), LAMBDA q : q.text # None)
    IN  IF withText = <<>> THEN <<>> ELSE Trim(Get(withText[1].text))

\* Mutant of ExtractText: the text is not trimmed.
ExtractText_Untrimmed(data) ==
    LET cands == data.candidates
        c0 == IF cands = None \/ Get(cands) = <<>> THEN None
              ELSE Some(Get(cands)[1])
        content == IF c0 = None THEN None ELSE Get(c0).content
        parts == IF content = None THEN None ELSE Get(content).parts
        p0 == IF parts = None \/ Get(parts) = <<>> THEN None
              ELSE Some(Get(parts)[1])
        t == IF p0 = None THEN None ELSE Get(p0).text
    IN  IF t = None THEN <<>> ELSE Get(t)

\* Lines 108-109: data.candidates?.[0]?.content?.parts?.[0]?.text?.trim() ?? ""
ExtractText(data) ==
    LET cands == data.candidates
        c0 == IF cands = None \/ Get(cands) = <<>> THEN None
              ELSE Some(Get(cands)[1])
        content == IF c0 = None THEN None ELSE Get(c0).content
        parts == IF content = None THEN None ELSE Get(content).parts
        p0 == IF parts = None \/ Get(parts) = <<>> THEN None
              ELSE Some(Get(parts)[1])
        t == IF p0 = None THEN None ELSE Get(p0).text
    IN  IF t = None THEN <<>> ELSE Trim(Get(t))

\* String.prototype.split on a regular expression [seps]+ : the pieces
\* between the maximal runs of separator characters, empty pieces at the
\* ends included.
RECURSIVE SplitFrom(_, _, _, _, _, _)
SplitFrom(seps, s, i, cur, acc, inRun) ==
    IF i > Len(s) THEN Append(acc, cur)
    ELSE IF s[i] \in seps
        THEN IF inRun THEN SplitFrom(seps, s, i + 1, cur, acc, TRUE)
             ELSE SplitFrom(seps, s, i + 1, <<>>, Append(acc, cur), TRUE)
    ELSE SplitFrom(seps, s, i + 1, Append(cur, s[i]), acc, FALSE)

Split(seps, s) == SplitFrom(seps, s, 1, <<>>, <<>>, FALSE)

\* tag.replace(/^#+/, "")
RECURSIVE StripHashes(_)
StripHashes(s) ==
    IF s # <<>> /\ Head(s) = "#" THEN StripHashes(Tail(s)) ELSE s

\* Line 120: the character class of /[,\\n]+/ holds a comma, a backslash
\* (written \\) and the letter n.
TagSeparators == {",", BS, "n"}

\* Mutant of MapFilterTags: a tag already in the list is dropped.
RECURSIVE MapFilterTags_Dedup(_)
MapFilterTags_Dedup(pieces) ==
    IF pieces = <<>> THEN <<>>
    ELSE LET tag == StripHashes(Trim(pieces[Len(pieces)]))
             rest == MapFilterTags_Dedup(SubSeq(pieces, 1, Len(pieces) - 1))
         IN  IF tag # <<>> /\ \A i \in 1..Len(rest) : rest[i] # tag
             THEN Append(rest, tag) ELSE rest

RECURSIVE MapFilterTags(_)
MapFilterTags(pieces) ==
    IF pieces = <<>> THEN <<>>
    ELSE LET tag == StripHashes(Trim(Head(pieces)))
         IN  (IF tag # <<>> THEN <<tag>> ELSE <<>>)
                 \o MapFilterTags(Tail(pieces))

\* Lines 119-122
ParseTagsWith(seps, text) == MapFilterTags(Split(seps, text))

ParseTags(text) == ParseTagsWith(TagSeparators, text)

\* Mutant of Result: the check for an empty text (lines 111-116) is missing.
Result_NoEmptyCheck(body, r) ==
    IF r.json = None THEN Catch(ResponseJsonError)
    ELSE LET text == ExtractText(Get(r.json))
         IN  IF body.action = Some("tags")
                 THEN Success(text, Some(ParseTags(text)))
             ELSE Success(text, None)

\* Lines 102-126: the response to a 2xx provider response r.
Result(body, r) ==
    IF r.json = None THEN Catch(ResponseJsonError)
    ELSE LET text == ExtractText(Get(r.json))
         IN  IF text = <<>> THEN Failure(500, NoContentMsg)
             ELSE IF body.action = Some("tags")
                 THEN Success(text, Some(ParseTags(text)))
             ELSE Success(text, None)

----------------------------------------------------------------------------
(* The inputs: the environment, the request and the provider's answers.    *)

KeyValues == {None, Some(<<>>), Some(<<"key">>)}
ModelValues == {None, Some(<<>>), Some(<<"gemini-2.0-flash">>)}

ActionValues == {None} \cup {Some(a) : a \in Actions \cup {"translate"}}
ContentValues == {None, Some(<<>>), Some(<<" ">>), Some(<<" ", "a", " ">>)}
ToneValues == {None, Some("casual"), Some("professional")}
PromptValues == {None, Some(<<>>), Some(<<"a">>)}
AskValues == {None, Some(<<>>), Some(<<" ">>), Some(<<"a">>)}

Payloads ==
    [action : ActionValues, content : ContentValues, tone : ToneValues,
     prompt : PromptValues, question : AskValues, notesContext : AskValues]

\* The payloads of the specification that explores the provider's texts.
PostPayloads ==
    [action : {None, Some("tags"), Some("summarize")},
     content : {Some(<<"a">>)}, tone : {None}, prompt : {None},
     question : {None}, notesContext : {None}]

\* The longest provider text explored, in characters.
MaxTextLen == 3

Chars == {",", NL, BS, "n", "#", " ", "a", "A"}

Texts == UNION {[1..n -> Chars] : n \in 0..MaxTextLen}

\* The provider's JSON envelope: { candidates?: [{ content?: { parts?:
\* [{ text?: string }] } }] }
Part(t) == [text |-> t]
Candidate(parts) == [content |-> Some([parts |-> parts])]
Data(cands) == [candidates |-> cands]
TextData(t) == Data(Some(<<Candidate(Some(<<Part(Some(t))>>))>>))

\* 2xx envelopes with no text in the first part of the first candidate.
NoTextData ==
    { Data(None),
      Data(Some(<<>>)),
      Data(Some(<<[content |-> None]>>)),
      Data(Some(<<Candidate(None)>>)),
      Data(Some(<<Candidate(Some(<<>>))>>)),
      Data(Some(<<Candidate(Some(<<Part(None)>>))>>)),
      Data(Some(<<Candidate(Some(<<Part(None), Part(Some(<<"a">>))>>))>>)),
      Data(Some(<<[content |-> None],
                  Candidate(Some(<<Part(Some(<<"a">>))>>))>>)) }

\* The text of the specification's example, "#focus, Research,, #dream",
\* with each word as one token (no word holds a separator character).
ExampleText ==
    <<"#", "focus", ",", " ", "Research", ",", ",", " ", "#", "dream">>

\* Envelopes whose later parts and candidates carry other texts.
LaterData(t) ==
    Data(Some(<<Candidate(Some(<<Part(Some(t)), Part(Some(<<"n">>))>>)),
                Candidate(Some(<<Part(Some(<<"#">>))>>))>>))

ErrorStatuses == {404, 429, 500}
ErrorBodies == {<<>>, <<"{error: {status: UNAVAILABLE}}">>, NoContentMsg}

ProviderResponse(status, body, json) ==
    [status |-> status, body |-> body, json |-> json]

ErrorResponses ==
    {ProviderResponse(st, b, None) : st \in ErrorStatuses, b \in ErrorBodies}

\* The provider's answers in the specification of the whole request.
Responses ==
    ErrorResponses
        \cup {ProviderResponse(200, <<>>, j) :
                j \in {None, Some(Data(Some(<<>>))),
                       Some(TextData(<<" ", "a", ",", "a">>))}}

\* The provider's answers in the specification that explores its texts.
PostResponses ==
    ErrorResponses
        \cup {ProviderResponse(200, <<>>, Some(d)) : d \in NoTextData}
        \cup {ProviderResponse(200, <<>>, Some(TextData(t))) :
                t \in Texts \cup {ExampleText}}
        \cup {ProviderResponse(200, <<>>, Some(LaterData(t))) :
                t \in {<<>>, <<" ">>, <<" ", "a">>}}
        \cup {ProviderResponse(200, <<>>, None)}

----------------------------------------------------------------------------
(* The request, from its arrival to the response.                          *)

Start(payloads) ==
    /\ apiKey \in KeyValues
    /\ geminiModel \in ModelValues
    /\ request \in {None} \cup {Some(b) : b \in payloads}
    /\ pc = "received"
    /\ prompt = <<>>
    /\ fallbackModels = <<>>
    /\ modelIndex = 0
    /\ response = None
    /\ calls = <<>>
    /\ returned = <<>>
    /\ composer = emptyDraft
    /\ PanelIdle
    /\ InviteIdle
    /\ NotesIdle
    /\ LaterIdle

Init == Start(Payloads)

InitPost == Start(PostPayloads) /\ apiKey = Some(<<"key">>)

Return(r) ==
    /\ returned' = Append(returned, r)
    /\ pc' = "done"

\* Lines 33-87: from the request to an early return or the first call.
POST_Start ==
    /\ pc = "received"
    /\ LET early == IF request = None THEN Some(Catch(RequestJsonError))
                    ELSE EarlyReturn(Get(request))
       IN  IF early # None
           THEN /\ Return(Get(early))
                /\ UNCHANGED <<prompt, fallbackModels, modelIndex, calls>>
           ELSE /\ prompt' = buildPrompt(Get(request))
                /\ fallbackModels' = FallbackModels
                /\ modelIndex' = 0
                /\ calls' = Append(calls,
                        requestModel(At(FallbackModels, 0), prompt'))
                /\ pc' = "fetching"
                /\ UNCHANGED returned
    /\ UNCHANGED <<apiKey, geminiModel, request, response>>
    /\ UNCHANGED <<composer, panelVars, inviteVars, noteVars, laterVars>>

\* The awaited fetch resolves with one of the provider's answers.
FetchResolves(answers) ==
    /\ pc = "fetching"
    /\ \E r \in answers : response' = Some(r)
    /\ pc' = "resolved"
    /\ UNCHANGED <<apiKey, geminiModel, request, prompt, fallbackModels,
                   modelIndex, calls, returned>>
    /\ UNCHANGED <<composer, panelVars, inviteVars, noteVars, laterVars>>

\* The awaited fetch rejects (a network failure): lines 127-131.
FetchRejects ==
    /\ pc = "fetching"
    /\ Return(Catch(FetchError))
    /\ UNCHANGED <<apiKey, geminiModel, request, prompt, fallbackModels,
                   modelIndex, response, calls>>
    /\ UNCHANGED <<composer, panelVars, inviteVars, noteVars, laterVars>>

\* Lines 89-92: one turn of the loop.  The previous response is dead from
\* here on: the variable is assigned again before it is read.
POST_Retry ==
    /\ pc = "resolved"
    /\ LoopCondition
    /\ modelIndex' = modelIndex + 1
    /\ calls' = Append(calls,
            requestModel(At(fallbackModels, modelIndex'), prompt))
    /\ response' = None
    /\ pc' = "fetching"
    /\ UNCHANGED <<apiKey, geminiModel, request, prompt, fallbackModels,
                   returned>>
    /\ UNCHANGED <<composer, panelVars, inviteVars, noteVars, laterVars>>

\* Lines 94-100
POST_UpstreamFailure ==
    /\ pc = "resolved"
    /\ ~LoopCondition
    /\ ~Ok(Get(response))
    /\ Return(UpstreamFailure(Get(response)))
    /\ UNCHANGED <<apiKey, geminiModel, request, prompt, fallbackModels,
                   modelIndex, response, calls>>
    /\ UNCHANGED <<composer, panelVars, inviteVars, noteVars, laterVars>>

\* Lines 102-126
POST_Result ==
    /\ pc = "resolved"
    /\ ~LoopCondition
    /\ Ok(Get(response))
    /\ Return(Result(Get(request), Get(response)))
    /\ UNCHANGED <<apiKey, geminiModel, request, prompt, fallbackModels,
                   modelIndex, response, calls>>
    /\ UNCHANGED <<composer, panelVars, inviteVars, noteVars, laterVars>>

Handler ==
    \/ POST_Start
    \/ FetchRejects
    \/ POST_Retry
    \/ POST_UpstreamFailure
    \/ POST_Result

Next == Handler \/ FetchResolves(Responses)

NextPost == Handler \/ FetchResolves(PostResponses)

Spec == Init /\ [][Next]_vars

SpecPost == InitPost /\ [][NextPost]_vars

----------------------------------------------------------------------------
(* The claims.                                                             *)

Done == pc = "done"
TheResponse == returned[1]
Body == Get(request)
LastStatus == Get(response).status
AllWhitespace(t) == \A i \in 1..Len(t) : t[i] \in Whitespace
Unusable(o) == o = None \/ AllWhitespace(Get(o))

\* C1: once a provider call has resolved, a further call is made if and
\* only if its status is 404 and a candidate has not been tried yet; any
\* other failed status, or a 404 on the last candidate, ends the dispatch
\* with no further call and the caller receives that status (and that body,
\* when it has one).  No call is made at any other point after the first.
C1_RetryIffNotFound ==
    [][ /\ pc = "resolved" =>
            /\ (Len(calls') = Len(calls) + 1)
                   <=> (LastStatus = 404 /\ Len(calls) < Len(fallbackModels))
            /\ Len(calls') = Len(calls) + 1 =>
                   calls'[Len(calls')].model = fallbackModels[Len(calls) + 1]
            /\ (LastStatus \notin 200..299 /\ Len(calls') = Len(calls)) =>
                   /\ pc' = "done"
                   /\ Len(returned') = 1
                   /\ returned'[1].status = LastStatus
                   /\ Get(response).body # <<>> =>
                          returned'[1].error = Some(Get(response).body)
        /\ pc \notin {"received", "resolved"} => calls' = calls ]_vars

C1_Witness ==
    /\ Done
    /\ Len(calls) = 2
    /\ response # None
    /\ LastStatus = 500
    /\ TheResponse.status = 500

\* C2 as claimed: one request issues at most two provider calls.
C2_AtMostTwoCalls == Len(calls) <= 2

\* C2 as amended: one request issues at most one provider call per
\* candidate model, so at most three (the first call and two retries), and
\* at most one when a model is configured.
C2_AtMostOneCallPerCandidate ==
    /\ Len(calls) <= Len(DefaultModels)
    /\ calls # <<>> => Len(calls) <= Len(fallbackModels)
    /\ (geminiModel # None /\ Get(geminiModel) # <<>>) => Len(calls) <= 1

C2_Witness ==
    /\ Done
    /\ Len(calls) = 3
    /\ geminiModel = None

\* C3: once the candidate list is built, it is the configured identifier
\* alone when GEMINI_MODEL names a model, and the three default identifiers
\* in order when no model is configured; an empty GEMINI_MODEL is read
\* either way.
C3_CandidateList ==
    calls # <<>> =>
        /\ geminiModel = None => fallbackModels = DefaultModels
        /\ (geminiModel # None /\ Get(geminiModel) # <<>>) =>
               fallbackModels = <<Get(geminiModel)>>
        /\ geminiModel = Some(<<>>) =>
               fallbackModels \in {DefaultModels, <<Get(geminiModel)>>}

\* C4: with GEMINI_API_KEY absent or empty no provider call is ever made
\* and the response is a 500 error, whatever the request holds.
C4_MissingKey ==
    (apiKey = None \/ apiKey = Some(<<>>)) =>
        /\ calls = <<>>
        /\ Done => (Len(returned) = 1 /\ TheResponse.status = 500
                        /\ TheResponse.error # None)

C4_Witness ==
    /\ Done
    /\ apiKey = Some(<<>>)
    /\ request # None
    /\ Body.action = Some("summarize")
    /\ TheResponse = Failure(500, MissingKeyMsg)

AskWithBlankField ==
    /\ request # None
    /\ Body.action = Some("ask")
    /\ Unusable(Body.question) \/ Unusable(Body.notesContext)

\* C5 as claimed: an `ask` request whose question or notesContext is
\* missing, empty or whitespace-only gets a 400 and causes no provider call.
C5_AskRejected400 ==
    AskWithBlankField =>
        /\ calls = <<>>
        /\ Done => TheResponse.status = 400

\* C5 as amended: such a request never causes a provider call; its response
\* is the 400 validation error when the provider key is configured and the
\* 500 configuration error when the key is absent or empty.
C5_AskRejected ==
    AskWithBlankField =>
        /\ calls = <<>>
        /\ Done =>
            IF apiKey = None \/ apiKey = Some(<<>>)
            THEN TheResponse = Failure(500, MissingKeyMsg)
            ELSE /\ TheResponse.status = 400
                 /\ TheResponse.error \in
                        {Some(MissingQuestionMsg), Some(MissingContextMsg)}

C5_Witness ==
    /\ Done
    /\ apiKey = Some(<<"key">>)
    /\ request # None
    /\ Body.action = Some("ask")
    /\ Body.question = Some(<<"a">>)
    /\ Body.notesContext = Some(<<" ">>)
    /\ TheResponse = Failure(400, MissingContextMsg)

\* C6: once the handler has run on a request whose action is absent or not
\* one of the five, with the provider key configured, the built prompt is
\* empty, the request has been answered 400 and no provider call was made.
C6_UnrecognizedRejected ==
    (/\ request # None
     /\ Body.action \notin {Some(a) : a \in Actions}
     /\ apiKey = Some(<<"key">>)
     /\ pc # "received") =>
        /\ buildPrompt(Body) = <<>>
        /\ calls = <<>>
        /\ Done
        /\ TheResponse.status = 400

UpstreamFailed == Done /\ response # None /\ LastStatus \notin 200..299

\* C7 as claimed: when the last provider call fails with status s and body
\* b, the response has status s and its error is b, the empty b included.
C7_UpstreamVerbatim ==
    UpstreamFailed =>
        /\ TheResponse.status = LastStatus
        /\ TheResponse.error = Some(Get(response).body)

\* C7 as amended: the response has status s; its error is b when b is not
\* empty, and the fixed message "Gemini request failed." when b is empty.
C7_UpstreamVerbatimOrDefault ==
    UpstreamFailed =>
        /\ TheResponse.status = LastStatus
        /\ TheResponse.text = None
        /\ TheResponse.tags = None
        /\ Get(response).body # <<>> =>
               TheResponse.error = Some(Get(response).body)
        /\ Get(response).body = <<>> =>
               TheResponse.error = Some(RequestFailedMsg)

C7_Witness ==
    /\ UpstreamFailed
    /\ LastStatus = 429
    /\ Get(response).body = <<>>
    /\ TheResponse = Failure(429, RequestFailedMsg)

IsSuccess(r) ==
    /\ r.status \in 200..299
    /\ r.error = None
    /\ r.text # None
    /\ Get(r.text) # <<>>
    /\ (r.tags # None) <=> (request # None /\ Body.action = Some("tags"))

IsFailure(r) ==
    /\ r.status \notin 200..299
    /\ r.error # None
    /\ r.text = None
    /\ r.tags = None

\* C8: the route returns one response per request, none before the handler
\* ends and exactly one when it has ended; it is a success (2xx, non-empty
\* text, tags exactly for the `tags` action, no error) or a failure (not
\* 2xx, an error, neither text nor tags).
C8_OneWellFormedResponse ==
    /\ Len(returned) = (IF Done THEN 1 ELSE 0)
    /\ \A i \in 1..Len(returned) :
           IsSuccess(returned[i]) \/ IsFailure(returned[i])

C8_Witness ==
    /\ Done
    /\ request # None
    /\ Body.action = Some("tags")
    /\ TheResponse = Success(<<"a", ",", "a">>, Some(<<<<"a">>, <<"a">>>>))

\* The text of the first part of the first candidate of an envelope that
\* has one.
FirstPart(d) == Get(Get(Get(Get(d.candidates)[1].content).parts)[1].text)

\* The first candidate's first part holds no text, or only whitespace.
NoUsableText ==
    /\ response # None
    /\ LastStatus \in 200..299
    /\ Get(response).json # None
    /\ LET d == Get(Get(response).json)
       IN  d \in NoTextData \/ AllWhitespace(FirstPart(d))

EmptyResult == Failure(500, NoContentMsg)

\* C9 as claimed: a 2xx provider response with no usable text is answered
\* with the 500 empty-result error, and no upstream failure is answered
\* with that response.
C9_EmptyResultDistinct ==
    Done =>
        /\ NoUsableText => TheResponse = EmptyResult
        /\ TheResponse = EmptyResult =>
               (response # None /\ LastStatus \in 200..299)

\* C9 as amended: a 2xx provider response with no usable text is answered
\* with the 500 empty-result error; the only upstream failure answered
\* with the same response is a provider 500 whose body is the text
\* "No content returned." itself.
C9_EmptyResult ==
    Done =>
        /\ NoUsableText => TheResponse = EmptyResult
        /\ TheResponse = EmptyResult =>
               /\ response # None
               /\ \/ LastStatus \in 200..299
                  \/ (LastStatus = 500 /\ Get(response).body = NoContentMsg)

C9_Witness ==
    /\ Done
    /\ NoUsableText
    /\ Get(response).json = Some(TextData(<<" ", NL>>))
    /\ TheResponse = EmptyResult

\* C10: the tag list of a `tags` response is the text cut at commas and
\* newlines and at nothing else (each piece trimmed, its leading hashes
\* removed, the empty pieces dropped).
C10_SplitAtCommaAndNewline ==
    (Done /\ TheResponse.tags # None) =>
        Get(TheResponse.tags) = ParseTagsWith({",", NL}, Get(TheResponse.text))

\* C11: every tag of a `tags` response is non-empty, does not begin with a
\* hash and has no whitespace at either end.
C11_TagsClean ==
    (Done /\ TheResponse.tags # None) =>
        \A i \in 1..Len(Get(TheResponse.tags)) :
            LET tag == Get(TheResponse.tags)[i]
            IN  /\ tag # <<>>
                /\ tag[1] # "#"
                /\ tag[1] \notin Whitespace
                /\ tag[Len(tag)] \notin Whitespace

\* The pieces the text is cut into, each trimmed and without its hashes.
CleanedPieces ==
    LET pieces == Split(TagSeparators, Get(TheResponse.text))
    IN  [i \in 1..Len(pieces) |-> StripHashes(Trim(pieces[i]))]

\* C12: the tag list of a `tags` response is the list of the non-empty
\* cleaned pieces in their order of appearance, repeated ones included,
\* with every character as it is in the text.
C12_OrderDuplicatesCase ==
    (Done /\ TheResponse.tags # None) =>
        Get(TheResponse.tags) = SelectSeq(CleanedPieces, LAMBDA t : t # <<>>)

C12_Witness ==
    /\ Done
    /\ TheResponse.tags # None
    /\ \/ /\ TheResponse.text = Some(ExampleText)
          /\ TheResponse.tags =
                 Some(<<<<"focus">>, <<"Research">>, <<"dream">>>>)
       \/ /\ TheResponse.text = Some(<<"A", ",", "A">>)
          /\ TheResponse.tags = Some(<<<<"A">>, <<"A">>>>)

\* C13: on a 2xx provider response with a JSON body, the text returned is
\* the first part of the first candidate, trimmed; when that part is absent
\* or blank no text is returned, whatever the later parts and candidates
\* hold.
C13_FirstCandidateFirstPart ==
    (Done /\ response # None /\ LastStatus \in 200..299
          /\ Get(response).json # None) =>
        LET d == Get(Get(response).json)
        IN  IF d \in NoTextData \/ AllWhitespace(FirstPart(d))
            THEN TheResponse = EmptyResult
            ELSE /\ TheResponse.text = Some(Trim(FirstPart(d)))
                 /\ TheResponse.status = 200

C13_Witness ==
    /\ Done
    /\ response # None
    /\ Get(response).json = Some(LaterData(<<" ", "a">>))
    /\ TheResponse.text = Some(<<"a">>)

Contains(p, token) == \E i \in 1..Len(p) : p[i] = token

Marker(action) ==
    CASE action = "summarize" -> SummarizeTemplate[1]
      [] action = "improve" -> ImproveTail[1]
      [] action = "tags" -> TagsTemplate[1]
      [] action = "generate" -> GenerateTemplate[1]
      [] action = "ask" -> AskHead[1]

Recognized == request # None /\ Body.action \in {Some(a) : a \in Actions}

\* C14: for each of the five actions and every payload the built prompt is
\* not empty and holds the action's instruction text, with the given tone
\* for `improve` and "professional" when none is given; it is the prompt of
\* every provider call, and the request is never answered "Empty prompt.".
C14_PromptHasMarker ==
    Recognized =>
        LET p == buildPrompt(Body)
        IN  /\ p # <<>>
            /\ Contains(p, Marker(Get(Body.action)))
            /\ Body.action = Some("improve") =>
                   Contains(p, IF Body.tone = None THEN "professional"
                               ELSE Get(Body.tone))
            /\ \A i \in 1..Len(calls) : calls[i].prompt = p
            /\ Done => TheResponse.error # Some(EmptyPromptMsg)

C14_Witness ==
    /\ Recognized
    /\ Body.action = Some("improve")
    /\ Body.tone = None
    /\ calls # <<>>
    /\ Contains(calls[1].prompt, "professional")
    /\ Contains(calls[1].prompt, ImproveHead[1])

MissingField(o) == o = None \/ o = Some(<<>>)

ValidationErrors ==
    {Some(EmptyPromptMsg), Some(MissingQuestionMsg), Some(MissingContextMsg)}

\* C15: with the provider key configured, a summarize, improve, tags or
\* generate request whose `content` or `prompt` is missing or empty is
\* dispatched to the provider and never answered with a validation error;
\* the missing field the action reads is rendered as the empty string.
C15_MissingFieldsDispatched ==
    (/\ request # None
     /\ Body.action \in {Some("summarize"), Some("improve"), Some("tags"),
                         Some("generate")}
     /\ MissingField(Body.content) \/ MissingField(Body.prompt)
     /\ apiKey = Some(<<"key">>)
     /\ pc # "received") =>
        /\ calls # <<>>
        /\ LET p == calls[1].prompt
               read == IF Body.action = Some("generate") THEN Body.prompt
                       ELSE Body.content
           IN  MissingField(read) =>
                   SubSeq(p, Len(p) - 1, Len(p)) = <<NL, NL>>
        /\ Done => TheResponse.error \notin ValidationErrors

C15_Witness ==
    /\ request # None
    /\ Body.action = Some("summarize")
    /\ Body.content = None
    /\ apiKey = Some(<<"key">>)
    /\ pc = "fetching"
    /\ calls = <<requestModel(FlashLatest, SummarizeTemplate \o <<NL, NL>>)>>

\* The steps the handler can still take at most: two per candidate not yet
\* called (the fetch settling, the handler resuming) and those of the
\* pending call.
StepsLeft ==
    CASE pc = "received" -> 2 * Len(DefaultModels) + 3
      [] pc = "fetching" -> 2 * (Len(DefaultModels) - Len(calls)) + 2
      [] pc = "resolved" -> 2 * (Len(DefaultModels) - Len(calls)) + 1
      [] pc = "done" -> 0

\* At each position short of the response a step can be taken: the handler
\* starts, the pending fetch settles, or the handler resumes with the loop
\* (line 89), the upstream failure (line 94) or the result (line 102).
NotStuck ==
    CASE pc = "received" -> ENABLED POST_Start
      [] pc = "fetching" ->
            ENABLED FetchResolves(Responses) /\ ENABLED FetchRejects
      [] pc = "resolved" ->
            \/ ENABLED POST_Retry
            \/ ENABLED POST_UpstreamFailure
            \/ (~LoopCondition /\ Ok(Get(response)))
      [] pc = "done" -> Len(returned) = 1

\* C16: the i-th provider call of a request goes to the i-th candidate, so
\* the candidates are called in list order, each at most once and never
\* more often than the list is long; a call is issued only while no other
\* call is pending; and the handler ends with one response once the awaited
\* calls settle: before its response it can always take a step (the handler
\* resumes, or the pending fetch settles), and every step lowers a measure
\* that is never negative.
C16_OrderedSequentialTerminating ==
    /\ [](/\ Len(calls) <= Len(fallbackModels)
          /\ \A i \in 1..Len(calls) : calls[i].model = fallbackModels[i]
          /\ StepsLeft >= 0
          /\ NotStuck)
    /\ [][/\ StepsLeft' < StepsLeft
          /\ Len(calls') # Len(calls) =>
                 /\ pc # "fetching"
                 /\ pc' = "fetching"
                 /\ Len(calls') = Len(calls) + 1]_vars

C16_Witness ==
    /\ Done
    /\ geminiModel = Some(<<>>)
    /\ Len(calls) = 3
    /\ calls[3].model = DefaultModels[3]
    /\ TheResponse.status = 200

Unrecognized == request # None /\ Body.action \notin {Some(a) : a \in Actions}

\* C18 as claimed: a request with an unrecognized or absent action (the
\* provider key configured) is dispatched to the provider with the
\* `content` field as it was sent for prompt.
C18_RawContentEchoed ==
    (Unrecognized /\ apiKey = Some(<<"key">>) /\ pc # "received") =>
        /\ calls # <<>>
        /\ \A i \in 1..Len(calls) : calls[i].prompt = OrEmpty(Body.content)

\* C18 as amended: such a request is dispatched with the trimmed `content`
\* for prompt when that is not empty; when `content` is missing, empty or
\* whitespace-only it is answered 400 "Empty prompt." without a provider
\* call.
C18_TrimmedContentEchoed ==
    (Unrecognized /\ apiKey = Some(<<"key">>) /\ pc # "received") =>
        IF AllWhitespace(OrEmpty(Body.content))
        THEN /\ calls = <<>>
             /\ Done
             /\ TheResponse = Failure(400, EmptyPromptMsg)
        ELSE /\ calls # <<>>
             /\ \A i \in 1..Len(calls) :
                    calls[i].prompt = Trim(Get(Body.content))

C18_Witness ==
    /\ Unrecognized
    /\ Body.action = Some("translate")
    /\ Body.content = Some(<<" ", "a", " ">>)
    /\ apiKey = Some(<<"key">>)
    /\ calls # <<>>
    /\ calls[1].prompt = <<"a">>

----------------------------------------------------------------------------
(* The AI panel of the dashboard: handleAiAction, lines 1213-1312 of       *)
(* src/app/dashboard/page.tsx, and the five buttons that call it, lines    *)
(* 1780-1847.  A click runs the handler up to its first await in one       *)
(* step: the handler is called from a click event, and React commits the   *)
(* state updates of a click handler before the browser dispatches the      *)
(* next event, so the next click finds the buttons rendered from the       *)
(* state this one left.                                                    *)

UpgradeAiMsg == <<"Upgrade your plan to unlock AI features.">>
AddTopicMsg == <<"Add a topic to generate a note.">>
AskQuestionMsg == <<"Ask a question about your notes.">>
NeedContentMsg == <<"Select a note with content or write a draft first.">>
NeedNotesMsg == <<"Add at least one note before asking the vault.">>
AiFailedMsg == <<"AI request failed.">>

\* The submissions the panel is followed through.
MaxAiResults == 2

\* Lines 1220-1222: undefined when the target note has no content.
sourceText ==
    IF aiTargetNote # None
    THEN IF Get(aiTargetNote).content = None THEN None
         ELSE Some(Trim(Get(Get(aiTargetNote).content)))
    ELSE Some(Trim(composer.content))

\* Line 1223
hasContent == Truthy(sourceText)

\* Lines 525-545: the title and tags lines, then the content.  The draft's
\* content is trimmed, the note's is not, and a note without content
\* renders as "null".
buildAiContent(note) ==
    IF note = None
    THEN <<"Title: Untitled draft", NL, "Tags: none", NL, NL>>
            \o Trim(composer.content)
    ELSE <<"Title: note", NL, "Tags: none", NL, NL>>
            \o (IF Get(note).content = None THEN <<"null">>
                ELSE Get(Get(note).content))

\* Lines 1214-1238: the message of the check that stops the handler before
\* it sets the busy flag, None when every check passes.
AiRefusal(action) ==
    IF ~aiEnabled THEN Some(UpgradeAiMsg)
    ELSE IF action = "generate" /\ Trim(aiPrompt) = <<>>
        THEN Some(AddTopicMsg)
    ELSE IF action = "ask" /\ Trim(aiQuestion) = <<>>
        THEN Some(AskQuestionMsg)
    ELSE IF ~hasContent /\ action \notin {"generate", "ask"}
        THEN Some(NeedContentMsg)
    ELSE None

\* Mutant of AiButtonDisabled: the buttons are never disabled.
AiButtonDisabled_Never == FALSE

\* disabled={aiBusy !== null}, on each of the five buttons (lines 1783,
\* 1791, 1799, 1807, 1843).
AiButtonDisabled == aiBusy # None

\* Lines 1252-1263: the body posted to /api/gemini (the tone, a select with
\* no branch in the handler, is left out).
AiRequest(action) ==
    [action |-> action,
     content |-> buildAiContent(aiTargetNote),
     prompt |-> Trim(aiPrompt),
     question |-> Trim(aiQuestion),
     notesContext |-> IF action = "ask" THEN Some(notesContext) ELSE None]

\* Lines 1213-1265: a click on the button of `action`, up to the fetch.
handleAiAction(action) ==
    /\ ~AiButtonDisabled
    /\ LET refusal == AiRefusal(action)
       IN  IF refusal # None
           THEN /\ aiError' = refusal
                /\ UNCHANGED <<aiBusy, aiInFlight>>
           ELSE IF action = "ask" /\ notesContext = <<>>
           THEN /\ aiError' = Some(NeedNotesMsg)
                /\ aiBusy' = None
                /\ UNCHANGED aiInFlight
           ELSE /\ Len(aiResults) + Len(aiInFlight) < MaxAiResults
                /\ aiBusy' = Some(action)
                /\ aiError' = None
                /\ aiInFlight' = Append(aiInFlight, AiRequest(action))
    /\ UNCHANGED <<aiEnabled, aiTargetNote, aiPrompt, aiQuestion,
                   notesContext, aiResults, composer>>
    /\ UNCHANGED <<routeVars, inviteVars, noteVars, laterVars>>

\* What the awaited fetch and response.json() hand to the handler: ok and
\* the decoded body, None when the body is not JSON.
AiAnswer(r) ==
    [ok |-> Ok(r),
     json |-> Some([text |-> r.text, tags |-> r.tags, error |-> r.error])]

AiAnswers ==
    {AiAnswer(r) : r \in {Success(<<"a">>, None),
                          Success(<<"a">>, Some(<<>>)),
                          Success(<<"a">>, Some(<<<<"a">>, <<"b">>>>)),
                          Failure(400, MissingQuestionMsg),
                          Failure(500, NoContentMsg)}}
        \cup {[ok |-> TRUE,
               json |-> Some([text |-> None, tags |-> None, error |-> None])],
              [ok |-> FALSE,
               json |-> Some([text |-> None, tags |-> None, error |-> None])],
              [ok |-> FALSE, json |-> None]}

Without(q, i) == SubSeq(q, 1, i - 1) \o SubSeq(q, i + 1, Len(q))

\* Lines 1277-1288
AiTitle(action) ==
    CASE action = "summarize" -> <<"Summary">>
      [] action = "improve" -> <<"Improved note">>
      [] action = "tags" -> <<"Suggested tags">>
      [] action = "ask" -> <<"Vault answer">>
      [] OTHER -> <<"Draft note">>

\* Line 1301: result.tags.map((tag) => `#${tag}`).join(" ")
RECURSIVE HashJoin(_)
HashJoin(tags) ==
    IF tags = <<>> THEN <<>>
    ELSE IF Len(tags) = 1 THEN <<"#">> \o tags[1]
    ELSE <<"#">> \o tags[1] \o <<" ">> \o HashJoin(Tail(tags))

\* Lines 1252-1311: the fetch of call i resolves with an answer whose body
\* decodes, and the handler runs to its end.
handleAiAction_Resume(i, a) ==
    /\ i \in 1..Len(aiInFlight)
    /\ a.json # None
    /\ LET action == aiInFlight[i].action
           result == Get(a.json)
       IN  IF ~a.ok \/ ~Truthy(result.text)
           THEN /\ aiError' = Some(IF result.error = None THEN AiFailedMsg
                                   ELSE Get(result.error))
                /\ UNCHANGED <<aiResults, composer, aiQuestion>>
           ELSE /\ aiResults' =
                     <<[title |-> AiTitle(action),
                        content |-> Get(result.text),
                        tags |-> result.tags]>> \o aiResults
                /\ composer' =
                     IF action = "generate"
                     THEN [composer EXCEPT !.content = Get(result.text)]
                     ELSE IF action = "tags" /\ Truthy(result.tags)
                     THEN [composer EXCEPT !.tags = HashJoin(Get(result.tags))]
                     ELSE composer
                /\ aiQuestion' = IF action = "ask" THEN <<>> ELSE aiQuestion
                /\ UNCHANGED aiError
    /\ aiBusy' = None
    /\ aiInFlight' = Without(aiInFlight, i)
    /\ UNCHANGED <<aiEnabled, aiTargetNote, aiPrompt, notesContext>>
    /\ UNCHANGED <<routeVars, inviteVars, noteVars, laterVars>>

\* Lines 1252-1271: the fetch of call i rejects, or the body of its
\* response is not JSON and response.json() throws.  Nothing catches the
\* error: the handler ends there.
handleAiAction_Throws(i) ==
    /\ i \in 1..Len(aiInFlight)
    /\ aiInFlight' = Without(aiInFlight, i)
    /\ UNCHANGED <<aiEnabled, aiTargetNote, aiPrompt, aiQuestion,
                   notesContext, aiBusy, aiError, aiResults, composer>>
    /\ UNCHANGED <<routeVars, inviteVars, noteVars, laterVars>>

DraftTexts == {<<>>, <<" ">>, <<" ", "a">>}

TargetNotes ==
    {None, Some([content |-> None]), Some([content |-> Some(<<"a", " ">>)])}

InitPanel ==
    /\ RouteIdle
    /\ LaterIdle
    /\ InviteIdle
    /\ NotesIdle
    /\ composer \in {[emptyDraft EXCEPT !.content = c] : c \in DraftTexts}
    /\ aiEnabled \in BOOLEAN
    /\ aiTargetNote \in TargetNotes
    /\ aiPrompt \in DraftTexts
    /\ aiQuestion \in DraftTexts
    /\ notesContext \in {<<>>, <<"Title: a">>}
    /\ aiBusy = None
    /\ aiError = None
    /\ aiResults = <<>>
    /\ aiInFlight = <<>>

NextPanel ==
    \/ \E action \in Actions : handleAiAction(action)
    \/ \E i \in 1..MaxAiResults : \E a \in AiAnswers :
            handleAiAction_Resume(i, a)
    \/ \E i \in 1..MaxAiResults : handleAiAction_Throws(i)

SpecPanel == InitPanel /\ [][NextPanel]_vars

\* C17: from one client at most one request of handleAiAction is in flight
\* at any time, and it is the one the busy flag names; a request is
\* submitted only while the busy flag is null and nothing is in flight.
C17_OneRequestInFlight ==
    /\ [](/\ Len(aiInFlight) <= 1
          /\ aiInFlight # <<>> => aiBusy = Some(aiInFlight[1].action))
    /\ [][Len(aiInFlight') > Len(aiInFlight) =>
              /\ aiBusy = None
              /\ aiInFlight = <<>>]_vars

\* A second action, of another kind, is in flight after the first one has
\* delivered its result.
C17_Witness ==
    /\ Len(aiResults) = 1
    /\ aiResults[1].title = AiTitle("summarize")
    /\ Len(aiInFlight) = 1
    /\ aiInFlight[1].action = "ask"
    /\ aiBusy = Some("ask")

----------------------------------------------------------------------------
(* The invite-issuing route: POST, lines 89-194 of                         *)
(* src/app/api/invite/accept/route.ts, with the authentication service     *)
(* and the two tables as its environment.                                  *)

Users == {"u1", "u2"}
Workspaces == {<<"w1">>, <<"w2">>}
Roles == {"owner", "editor", "viewer"}

\* supabaseAdmin.auth.getUser (line 115): the user an access token stands
\* for, None for a token the service does not know.
UserOf(token) ==
    CASE token = <<"t1">> -> Some("u1")
      [] token = <<"t2">> -> Some("u2")
      [] OTHER -> None

\* supabaseAdmin.auth.admin.getUserByEmail (line 135)
UserByEmail(email) ==
    CASE email = <<"a">> -> Some("u1")
      [] email = <<"b">> -> Some("u2")
      [] OTHER -> None

\* String.prototype.split on a one-character string: the pieces between
\* the occurrences of the separator, empty pieces included.
RECURSIVE SplitOn(_, _, _, _)
SplitOn(sep, s, cur, acc) ==
    IF s = <<>> THEN Append(acc, cur)
    ELSE IF Head(s) = sep THEN SplitOn(sep, Tail(s), <<>>, Append(acc, cur))
    ELSE SplitOn(sep, Tail(s), Append(cur, Head(s)), acc)

\* Lines 83-87: the second piece of the header, undefined when there is
\* none.  The scheme is not looked at.
getBearerToken(header) ==
    LET pieces == SplitOn(" ", OrEmpty(header), <<>>, <<>>)
    IN  IF Len(pieces) >= 2 THEN Some(pieces[2]) ELSE None

\* String.prototype.toLowerCase
ToLowerCase(s) ==
    [i \in 1..Len(s) |-> CASE s[i] = "A" -> "a"
                           [] s[i] = "B" -> "b"
                           [] OTHER -> s[i]]

\* Line 93
InviteWorkspaceId(payload) ==
    IF payload.workspaceId = None THEN None
    ELSE Some(Trim(Get(payload.workspaceId)))

\* Line 94
InviteEmail(payload) ==
    IF payload.email = None THEN None
    ELSE Some(ToLowerCase(Trim(Get(payload.email))))

\* Line 95
InviteRole(payload) ==
    IF payload.role = None THEN "viewer" ELSE Get(payload.role)

RequiredMsg == <<"Workspace and email are required.">>
InvalidRoleMsg == <<"Invalid role.">>
UnauthorizedMsg == <<"Unauthorized.">>
OwnersOnlyMsg == <<"Only workspace owners can invite.">>
DatabaseError == <<"database error">>
MailError == <<"mail error">>

\* NextResponse.json({ error }, { status })
InviteFailure(status, message) ==
    [status |-> status, error |-> Some(message), result |-> None,
     inviteLink |-> None]

\* NextResponse.json({ status: "added" }), line 156, and
\* NextResponse.json({ status: "invited", inviteLink }), line 187
InviteSuccess(result, link) ==
    [status |-> 200, error |-> None, result |-> Some(result),
     inviteLink |-> link]

\* .from("workspace_members").select("role").eq(...).eq(...).maybeSingle(),
\* lines 120-125: the row, null when there is none.
MemberRow(table, workspaceId, userId) ==
    IF <<workspaceId, userId>> \in DOMAIN table
            /\ table[<<workspaceId, userId>>] # "none"
    THEN Some([role |-> table[<<workspaceId, userId>>]])
    ELSE None

\* Mutant of IsOwnerMember: any member may invite.
IsOwnerMember_AnyMember(membership) == membership # None

\* Line 127, negated
IsOwnerMember(membership) ==
    membership # None /\ Get(membership).role = "owner"

\* Lines 174-178: siteUrl.replace(/\/$/, "") and the link built on it.
InviteLink(url, token) ==
    IF url = <<>> THEN None
    ELSE Some((IF url[Len(url)] = "/" THEN SubSeq(url, 1, Len(url) - 1)
               ELSE url) \o <<"/invite?token=">> \o token)

\* crypto.randomUUID(), line 159
InviteTokens == {<<"k1">>, <<"k2">>}

InviteReturn(r) ==
    /\ inviteReturned' = Append(inviteReturned, r)
    /\ invitePc' = "done"

\* Lines 90-112: the body, its checks and the bearer token.
Invite_POST_Start ==
    /\ invitePc = "received"
    /\ IF invitePayload = None
       THEN InviteReturn(InviteFailure(500, RequestJsonError))
       ELSE LET payload == Get(invitePayload)
            IN  IF \/ ~Truthy(InviteWorkspaceId(payload))
                   \/ ~Truthy(InviteEmail(payload))
                THEN InviteReturn(InviteFailure(400, RequiredMsg))
                ELSE IF InviteRole(payload) \notin {"viewer", "editor"}
                THEN InviteReturn(InviteFailure(400, InvalidRoleMsg))
                ELSE IF ~Truthy(getBearerToken(authorization))
                THEN InviteReturn(InviteFailure(401, UnauthorizedMsg))
                ELSE /\ invitePc' = "getUser"
                     /\ UNCHANGED inviteReturned
    /\ UNCHANGED <<workspace_members, workspace_invites, invitePayload,
                   authorization, siteUrl, userData>>
    /\ UNCHANGED <<routeVars, composer, panelVars, noteVars, laterVars>>

\* Lines 114-118: the service names the token's user, or answers with an
\* error (an unknown token, or a failure of the service).
Invite_POST_GetUser ==
    /\ invitePc = "getUser"
    /\ \E user \in {None, UserOf(Get(getBearerToken(authorization)))} :
          IF user = None
          THEN /\ InviteReturn(InviteFailure(401, UnauthorizedMsg))
               /\ UNCHANGED userData
          ELSE /\ userData' = user
               /\ invitePc' = "membership"
               /\ UNCHANGED inviteReturned
    /\ UNCHANGED <<workspace_members, workspace_invites, invitePayload,
                   authorization, siteUrl>>
    /\ UNCHANGED <<routeVars, composer, panelVars, noteVars, laterVars>>

\* Lines 120-132: the caller's row in the target workspace; a failed query
\* yields null as a missing row does.
Invite_POST_Membership ==
    /\ invitePc = "membership"
    /\ \E membership \in
            {None, MemberRow(workspace_members,
                             Get(InviteWorkspaceId(Get(invitePayload))),
                             Get(userData))} :
          IF ~IsOwnerMember(membership)
          THEN InviteReturn(InviteFailure(403, OwnersOnlyMsg))
          ELSE /\ invitePc' = "write"
               /\ UNCHANGED inviteReturned
    /\ UNCHANGED <<workspace_members, workspace_invites, invitePayload,
                   authorization, siteUrl, userData>>
    /\ UNCHANGED <<routeVars, composer, panelVars, noteVars, laterVars>>

\* Lines 134-187: the invited address belongs to a user, who is made a
\* member, or to nobody yet, and an invite row is written.  Each write may
\* fail in the database; the mail of line 181 may throw once the row is
\* written.  The table gives the row its id, and leaves accepted_at null:
\* the two columns the accepting route reads (lines 40 and 65).
Invite_POST_Write ==
    /\ invitePc = "write"
    /\ LET payload == Get(invitePayload)
           workspaceId == Get(InviteWorkspaceId(payload))
           email == Get(InviteEmail(payload))
           role == InviteRole(payload)
       IN  \E existingUser \in {None, UserByEmail(email)} :
           \E written \in BOOLEAN :
             IF existingUser # None
             THEN /\ UNCHANGED workspace_invites
                  /\ IF written
                     THEN /\ workspace_members' =
                               [workspace_members EXCEPT
                                  ![<<workspaceId, Get(existingUser)>>] = role]
                          /\ InviteReturn(InviteSuccess("added", None))
                     ELSE /\ UNCHANGED workspace_members
                          /\ InviteReturn(InviteFailure(500, DatabaseError))
             ELSE /\ UNCHANGED workspace_members
                  /\ IF written
                     THEN \E inviteToken \in InviteTokens :
                          \E mailed \in BOOLEAN :
                             /\ workspace_invites' =
                                  Append(workspace_invites,
                                         [workspace_id |-> workspaceId,
                                          email |-> email,
                                          role |-> role,
                                          token |-> inviteToken,
                                          id |-> Len(workspace_invites) + 1,
                                          accepted_at |-> None])
                             /\ IF siteUrl # <<>> /\ ~mailed
                                THEN InviteReturn(
                                        InviteFailure(500, MailError))
                                ELSE InviteReturn(
                                        InviteSuccess("invited",
                                            InviteLink(siteUrl, inviteToken)))
                     ELSE /\ UNCHANGED workspace_invites
                          /\ InviteReturn(InviteFailure(500, DatabaseError))
    /\ UNCHANGED <<invitePayload, authorization, siteUrl, userData>>
    /\ UNCHANGED <<routeVars, composer, panelVars, noteVars, laterVars>>

InvitePayloads ==
    [workspaceId : {None, Some(<<>>), Some(<<" ", "w1">>), Some(<<"w2">>),
                    Some(<<"w3">>)},
     email : {None, Some(<<" ">>), Some(<<"B", " ">>), Some(<<"c">>)},
     role : {None, Some("viewer"), Some("editor"), Some("owner")}]

AuthorizationValues ==
    {None, Some(<<"Bearer">>), Some(<<"Bearer", " ", "t1">>),
     Some(<<"Token", " ", "t2">>), Some(<<"Bearer", " ", "tx">>),
     Some(<<"Bearer", " ", " ", "t1">>)}

\* The memberships before the request: any roles in workspace w1, and u1
\* the owner of w2 with u2 a viewer there.
MemberTables ==
    {t \in [Workspaces \X Users -> Roles \cup {"none"}] :
        /\ t[<<(<<"w2">>), "u1">>] = "owner"
        /\ t[<<(<<"w2">>), "u2">>] = "viewer"}

InitInvite ==
    /\ RouteIdle
    /\ LaterIdle
    /\ PanelIdle
    /\ NotesIdle
    /\ composer = emptyDraft
    /\ workspace_members \in MemberTables
    /\ workspace_invites = <<>>
    /\ invitePayload \in {None} \cup {Some(b) : b \in InvitePayloads}
    /\ authorization \in AuthorizationValues
    /\ siteUrl \in {<<>>, <<"https://site", "/">>}
    /\ invitePc = "received"
    /\ userData = None
    /\ inviteReturned = <<>>

NextInvite ==
    \/ Invite_POST_Start
    \/ Invite_POST_GetUser
    \/ Invite_POST_Membership
    \/ Invite_POST_Write

SpecInvite == InitInvite /\ [][NextInvite]_vars

\* The user the request's bearer token stands for, None for a request
\* without a token or with one the service does not know.
Caller ==
    IF getBearerToken(authorization) = None THEN None
    ELSE UserOf(Get(getBearerToken(authorization)))

\* The authenticated caller is a member of the target workspace with role
\* owner.
CallerIsOwner ==
    /\ invitePayload # None
    /\ InviteWorkspaceId(Get(invitePayload)) # None
    /\ Caller # None
    /\ LET key == <<Get(InviteWorkspaceId(Get(invitePayload))), Get(Caller)>>
       IN  key \in DOMAIN workspace_members
                /\ workspace_members[key] = "owner"

InviteWrites ==
    \/ workspace_members' # workspace_members
    \/ workspace_invites' # workspace_invites

InviteAnswers(statuses) ==
    /\ Len(inviteReturned') = Len(inviteReturned) + 1
    /\ inviteReturned'[Len(inviteReturned')].status \in statuses

\* C19, as stated: the route writes a membership or an invite row only for
\* a caller who is an owner of the target workspace, and answers every
\* other caller 401 or 403 with both tables unchanged.
C19_OthersGet401Or403 ==
    [][/\ InviteWrites => CallerIsOwner
       /\ (inviteReturned' # inviteReturned /\ ~CallerIsOwner) =>
             /\ InviteAnswers({401, 403})
             /\ ~InviteWrites]_vars

\* C19, amended: the route reaches its writes, and writes a membership or
\* an invite row, only for a caller who is an owner of the target
\* workspace; it answers every other caller 400, 401, 403 or 500 with both
\* tables unchanged.
C19_OnlyOwnersWrite ==
    /\ [](invitePc = "write" => CallerIsOwner /\ userData = Caller)
    /\ [][/\ InviteWrites => CallerIsOwner
          /\ (inviteReturned' # inviteReturned /\ ~CallerIsOwner) =>
                /\ InviteAnswers({400, 401, 403, 500})
                /\ ~InviteWrites]_vars

\* An authenticated editor of the target workspace has been answered 403
\* and no row was written.
C19_Witness ==
    /\ invitePc = "done"
    /\ Caller = Some("u1")
    /\ invitePayload # None
    /\ InviteWorkspaceId(Get(invitePayload)) = Some(<<"w1">>)
    /\ workspace_members[<<(<<"w1">>), "u1">>] = "editor"
    /\ inviteReturned = <<InviteFailure(403, OwnersOnlyMsg)>>
    /\ workspace_invites = <<>>

----------------------------------------------------------------------------
(* The note handlers of the dashboard: handleSaveNote (lines 936-1026),    *)
(* handleDeleteNote (lines 1051-1083) and the handlers that prepare the    *)
(* composer, with the notes table and the media bucket as their            *)
(* environment.  A handler is followed from every state of the component,  *)
(* whatever its buttons show: the checks of the handler itself are what    *)
(* is examined.  One run of a handler is one step; each call it makes to   *)
(* the storage or to the table succeeds or fails.                          *)

ViewOnlyMsg == <<"You have view-only access to this workspace.">>
UpgradeNotesMsg == <<"Upgrade your plan to add more notes.">>
StorageError == <<"storage error">>

\* The notes the handlers are followed through.
MaxNotes == 2

NoteIds == 1..MaxNotes

\* The names line 913 may give an uploaded object.
Paths == {"p1", "p2"}

\* Lines 497-500: workspaces.find(...)
activeWorkspace ==
    LET found == SelectSeq(workspaces,
                    LAMBDA item : Some(item.workspace_id) = activeWorkspaceId)
    IN  IF found = <<>> THEN None ELSE Some(found[1])

\* Mutant of canEdit: every role may edit.
canEdit_Always == TRUE

\* Line 512
canEdit == activeWorkspace = None \/ Get(activeWorkspace).role # "viewer"

\* Lines 405-408: None stands for Number.POSITIVE_INFINITY.
resolveLimit(limit) ==
    IF limit = None \/ Get(limit) <= 0 THEN None ELSE limit

\* Lines 509, 515-516
noteLimitReached ==
    /\ resolveLimit(noteLimit) # None
    /\ noteCount >= Get(resolveLimit(noteLimit))

\* crypto.randomUUID() in the path of line 913: a name no object has and no
\* note refers to.
FreshPaths ==
    {p \in Paths :
        /\ p \notin media
        /\ \A row \in notesTable : row.attachment_path # Some(p)
        /\ editingNote # None => Get(editingNote).attachment_path # Some(p)}

\* The id the table gives an inserted row.
FreshIds == NoteIds \ {row.id : row \in notesTable}

StorageCall(op, path) == [op |-> op, target |-> path]
TableCall(op, id) == [op |-> op, target |-> id]

\* Lines 699-708: the count fetchNoteCount reads.
CountNotes(table) ==
    Cardinality({row \in table : Some(row.workspace_id) = activeWorkspaceId})

\* Lines 965-998: the editing branch.  What the run leaves in the bucket
\* and in the table, the calls it made, and the error it threw, if any.
EditOutcome(uploadOk, removeOk, writeOk, path) ==
    LET note == Get(editingNote)
        old == note.attachment_path
        hasFile == composer.file # None
        replaces == hasFile /\ uploadOk /\ old # None
        clears == ~hasFile /\ removeAttachment /\ old # None
        upload == IF hasFile THEN <<StorageCall("upload", path)>> ELSE <<>>
        remove == IF replaces \/ clears
                  THEN <<StorageCall("remove", Get(old))>> ELSE <<>>
        uploaded == IF hasFile /\ uploadOk THEN media \cup {path} ELSE media
        removed == IF (replaces \/ clears) /\ removeOk
                   THEN uploaded \ {Get(old)} ELSE uploaded
        updated == {IF row.id # note.id THEN row
                    ELSE IF hasFile
                        THEN [row EXCEPT !.attachment_path = Some(path)]
                    ELSE IF clears
                        THEN [row EXCEPT !.attachment_path = None]
                    ELSE row : row \in notesTable}
    IN  IF hasFile /\ ~uploadOk
        THEN [media |-> media, notes |-> notesTable, calls |-> upload,
              error |-> Some(StorageError)]
        ELSE IF ~writeOk
        THEN [media |-> removed, notes |-> notesTable,
              calls |-> upload \o remove \o <<TableCall("update", note.id)>>,
              error |-> Some(DatabaseError)]
        ELSE [media |-> removed, notes |-> updated,
              calls |-> upload \o remove \o <<TableCall("update", note.id)>>,
              error |-> None]

\* Lines 999-1021: the branch of a new note.
InsertOutcome(uploadOk, writeOk, path, id) ==
    LET hasFile == composer.file # None
        upload == IF hasFile THEN <<StorageCall("upload", path)>> ELSE <<>>
        uploaded == IF hasFile /\ uploadOk THEN media \cup {path} ELSE media
        row == [id |-> id,
                workspace_id |-> Get(activeWorkspaceId),
                attachment_path |-> IF hasFile THEN Some(path) ELSE None]
    IN  IF hasFile /\ ~uploadOk
        THEN [media |-> media, notes |-> notesTable, calls |-> upload,
              error |-> Some(StorageError)]
        ELSE IF ~writeOk
        THEN [media |-> uploaded, notes |-> notesTable,
              calls |-> upload \o <<TableCall("insert", id)>>,
              error |-> Some(DatabaseError)]
        ELSE [media |-> uploaded, notes |-> notesTable \cup {row},
              calls |-> upload \o <<TableCall("insert", id)>>,
              error |-> None]

\* Lines 1060-1072
DeleteOutcome(note, removeOk, writeOk) ==
    LET old == note.attachment_path
        remove == IF old # None
                  THEN <<StorageCall("remove", Get(old))>> ELSE <<>>
        removed == IF old # None /\ removeOk THEN media \ {Get(old)}
                   ELSE media
        made == remove \o <<TableCall("delete", note.id)>>
    IN  IF ~writeOk
        THEN [media |-> removed, notes |-> notesTable, calls |-> made,
              error |-> Some(DatabaseError)]
        ELSE [media |-> removed,
              notes |-> {row \in notesTable : row.id # note.id},
              calls |-> made, error |-> None]

\* The outcomes of a call: it succeeds or fails when the run makes it, and
\* has one outcome, of no effect, when the run does not.
Outcomes(made) == IF made THEN BOOLEAN ELSE {TRUE}

\* What a handler leaves alone when it returns before its try block.
ReturnEarly ==
    /\ lastCalls' = <<>>
    /\ UNCHANGED <<supabase, session, workspaces, activeWorkspaceId,
                   editingNote, removeAttachment, noteLimit, noteCount,
                   busyAction, notesTable, media, composer>>

\* Lines 936-1026
handleSaveNote ==
    /\ IF supabase = None \/ session = None \/ ~Truthy(activeWorkspaceId)
       THEN /\ ReturnEarly
            /\ UNCHANGED actionError
       ELSE IF ~canEdit
       THEN /\ ReturnEarly
            /\ actionError' = Some(ViewOnlyMsg)
       ELSE IF editingNote = None /\ noteLimitReached
       THEN /\ ReturnEarly
            /\ actionError' = Some(UpgradeNotesMsg)
       ELSE \E uploadOk \in Outcomes(composer.file # None) :
            \E removeOk \in Outcomes(
                    /\ editingNote # None
                    /\ Get(editingNote).attachment_path # None
                    /\ \/ composer.file # None /\ uploadOk
                       \/ composer.file = None /\ removeAttachment) :
            \E writeOk \in Outcomes(uploadOk) :
            \E counted \in Outcomes(uploadOk /\ writeOk) :
            \E path \in IF composer.file # None THEN FreshPaths ELSE {"p1"} :
            \E id \in IF editingNote = None THEN FreshIds ELSE {1} :
               /\ LET out == IF editingNote # None
                             THEN EditOutcome(uploadOk, removeOk, writeOk,
                                              path)
                             ELSE InsertOutcome(uploadOk, writeOk, path, id)
                  IN  /\ media' = out.media
                      /\ notesTable' = out.notes
                      /\ lastCalls' = out.calls
                      /\ actionError' = out.error
                      /\ busyAction' = FALSE
                      /\ IF out.error = None
                         THEN /\ composer' = emptyDraft
                              /\ editingNote' = None
                              /\ removeAttachment' = FALSE
                              /\ noteCount' = IF counted
                                              THEN CountNotes(out.notes)
                                              ELSE noteCount
                         ELSE UNCHANGED <<composer, editingNote,
                                          removeAttachment, noteCount>>
               /\ UNCHANGED <<supabase, session, workspaces,
                              activeWorkspaceId, noteLimit>>
    /\ UNCHANGED <<routeVars, panelVars, inviteVars, laterVars>>

\* Lines 1051-1083
handleDeleteNote(note) ==
    /\ IF supabase = None \/ session = None
       THEN /\ ReturnEarly
            /\ UNCHANGED actionError
       ELSE IF ~canEdit
       THEN /\ ReturnEarly
            /\ actionError' = Some(ViewOnlyMsg)
       ELSE \E removeOk \in Outcomes(note.attachment_path # None) :
            \E writeOk \in BOOLEAN :
            \E counted \in Outcomes(writeOk) :
            LET out == DeleteOutcome(note, removeOk, writeOk)
                resets == /\ out.error = None
                          /\ editingNote # None
                          /\ Get(editingNote).id = note.id
            IN  /\ media' = out.media
                /\ notesTable' = out.notes
                /\ lastCalls' = out.calls
                /\ actionError' = out.error
                /\ busyAction' = FALSE
                /\ composer' = IF resets THEN emptyDraft ELSE composer
                /\ editingNote' = IF resets THEN None ELSE editingNote
                /\ removeAttachment' =
                     IF resets THEN FALSE ELSE removeAttachment
                /\ noteCount' = IF out.error = None /\ counted
                                THEN CountNotes(out.notes) ELSE noteCount
                /\ UNCHANGED <<supabase, session, workspaces,
                               activeWorkspaceId, noteLimit>>
    /\ UNCHANGED <<routeVars, panelVars, inviteVars, laterVars>>

\* Lines 1039-1049 (the note's title, content and tags are left out of the
\* composer: see emptyDraft)
handleEditNote(note) ==
    /\ editingNote' = Some([id |-> note.id,
                            attachment_path |-> note.attachment_path])
    /\ composer' = [composer EXCEPT !.file = None]
    /\ removeAttachment' = FALSE
    /\ actionError' = None
    /\ UNCHANGED <<supabase, session, workspaces, activeWorkspaceId,
                   noteLimit, noteCount, busyAction, notesTable, media,
                   lastCalls>>
    /\ UNCHANGED <<routeVars, panelVars, inviteVars, laterVars>>

\* Lines 899-904, called for the file input at line 1665
handleComposerChange(file) ==
    /\ composer' = [composer EXCEPT !.file = file]
    /\ UNCHANGED <<routeVars, panelVars, inviteVars, noteVars, laterVars>>

\* Line 1680, the box shown while a note is edited
setRemoveAttachment(checked) ==
    /\ editingNote # None
    /\ removeAttachment' = checked
    /\ UNCHANGED <<supabase, session, workspaces, activeWorkspaceId,
                   editingNote, noteLimit, noteCount, busyAction,
                   actionError, notesTable, media, lastCalls, composer>>
    /\ UNCHANGED <<routeVars, panelVars, inviteVars, laterVars>>

\* Lines 1089-1101
handleWorkspaceSwitch(workspaceId) ==
    /\ activeWorkspaceId' = Some(workspaceId)
    /\ editingNote' = None
    /\ composer' = emptyDraft
    /\ aiResults' = <<>>
    /\ aiError' = None
    /\ aiTargetNote' = None
    /\ aiQuestion' = <<>>
    /\ UNCHANGED <<supabase, session, workspaces, removeAttachment,
                   noteLimit, noteCount, busyAction, actionError, notesTable,
                   media, lastCalls>>
    /\ UNCHANGED <<aiEnabled, aiPrompt, notesContext, aiBusy, aiInFlight>>
    /\ UNCHANGED <<routeVars, inviteVars, laterVars>>

\* The memberships the signed-in user may hold: none yet, or one workspace
\* in any role.
WorkspaceLists ==
    {<<>>}
        \cup {<<[workspace_id |-> <<"w1">>, role |-> r]>> : r \in Roles}

\* The note another member left in workspace w1, with its attachment.
SharedNote ==
    [id |-> 1, workspace_id |-> <<"w1">>, attachment_path |-> Some("p1")]

InitNotes ==
    /\ RouteIdle
    /\ LaterIdle
    /\ PanelIdle
    /\ InviteIdle
    /\ composer = emptyDraft
    /\ supabase \in {None, Some("client")}
    /\ session \in {None, Some([user |-> "u1"])}
    /\ workspaces \in WorkspaceLists
    /\ supabase = None => session = None /\ workspaces = <<>>
    /\ activeWorkspaceId =
            IF workspaces = <<>> THEN None
            ELSE Some(workspaces[1].workspace_id)
    /\ editingNote = None
    /\ removeAttachment = FALSE
    /\ noteLimit \in {None, Some(1)}
    /\ notesTable \in {{}, {SharedNote}}
    /\ media = {Get(row.attachment_path) : row \in notesTable}
    /\ noteCount = CountNotes(notesTable)
    /\ busyAction = FALSE
    /\ actionError = None
    /\ lastCalls = <<>>

NextNotes ==
    \/ handleSaveNote
    \/ \E note \in notesTable : handleDeleteNote(note)
    \/ \E note \in notesTable : handleEditNote(note)
    \/ \E file \in {None, Some("file")} : handleComposerChange(file)
    \/ \E checked \in BOOLEAN : setRemoveAttachment(checked)
    \/ \E i \in 1..Len(workspaces) :
            handleWorkspaceSwitch(workspaces[i].workspace_id)

SpecNotes == InitNotes /\ [][NextNotes]_vars

\* The client is configured and a user is signed in.
SignedIn == supabase # None /\ session # None

\* The role of the first membership of the active workspace is viewer.
ViewerRole ==
    \E i \in 1..Len(workspaces) :
       /\ Some(workspaces[i].workspace_id) = activeWorkspaceId
       /\ workspaces[i].role = "viewer"
       /\ \A j \in 1..(i - 1) :
             Some(workspaces[j].workspace_id) # activeWorkspaceId

\* A user is signed in and that user's role in the active workspace is
\* viewer.
IsViewer == SignedIn /\ ViewerRole

\* C20: when the user's role in the active workspace is viewer, a run of
\* handleSaveNote or of handleDeleteNote sets the view-only error message
\* and performs no storage upload, no storage removal and no insert, update
\* or delete on the notes table.  (With the viewer role loaded and nobody
\* signed in, a run performs none of these calls either.)
C20_ViewerBlocked ==
    [][(/\ ViewerRole
        /\ \/ handleSaveNote
           \/ \E note \in notesTable : handleDeleteNote(note)) =>
            /\ SignedIn => actionError' = Some(ViewOnlyMsg)
            /\ lastCalls' = <<>>
            /\ UNCHANGED <<notesTable, media>>]_vars

\* A viewer with a note under edit and a file chosen has run a handler:
\* the message is set, no call was made, the note and its attachment are
\* as they were.
C20_Witness ==
    /\ IsViewer
    /\ actionError = Some(ViewOnlyMsg)
    /\ editingNote # None
    /\ composer.file # None
    /\ lastCalls = <<>>
    /\ notesTable = {SharedNote}
    /\ media = {"p1"}

----------------------------------------------------------------------------
(* The tag functions of the dashboard: formatTagInput (lines 375-376),     *)
(* normalizeTag (lines 378-379) and parseTags (lines 381-387) of           *)
(* src/app/dashboard/page.tsx.  handleSaveNote parses the tags field,      *)
(* handleEditNote formats the saved list back into the field, and the      *)
(* next save parses it again.                                              *)

\* The length of the texts of the tags field.
MaxTagLen == 4

TagChars == {" ", ",", "#", "a", "A", "b"}

TagInputs == UNION {[1..n -> TagChars] : n \in 0..MaxTagLen}

\* Line 383: /[\s,]+/
TagFieldSeparators == Whitespace \cup {","}

\* Lines 378-379
normalizeTag(tag) == ToLowerCase(StripHashes(Trim(tag)))

\* Array.from(new Set(list)): the first occurrence of each element, in
\* order.
RECURSIVE Distinct(_)
Distinct(list) ==
    IF list = <<>> THEN <<>>
    ELSE LET front == Distinct(SubSeq(list, 1, Len(list) - 1))
             last == list[Len(list)]
         IN  IF \E i \in 1..Len(front) : front[i] = last THEN front
             ELSE Append(front, last)

\* Lines 382-385
NormalizedTags(value) ==
    LET pieces == Split(TagFieldSeparators, value)
    IN  SelectSeq([i \in 1..Len(pieces) |-> normalizeTag(pieces[i])],
                  LAMBDA tag : tag # <<>>)

\* Mutant of parseTags: the list is not passed through a Set.
parseTags_NoSet(value) == NormalizedTags(value)

\* Lines 381-387
parseTags(value) == Distinct(NormalizedTags(value))

\* Lines 375-376
formatTagInput(tags) ==
    IF tags = None \/ Get(tags) = <<>> THEN <<>> ELSE HashJoin(Get(tags))

\* handleSaveNote, line 953: parseTags(composer.tags)
Tags_Parse ==
    /\ tagSteps = <<>>
    /\ tagSteps' = <<parseTags(tagValue)>>
    /\ UNCHANGED tagValue
    /\ UNCHANGED <<routeVars, composer, panelVars, inviteVars, noteVars,
                   acceptVars, fetchVars, workspaceVars, vaultVars>>

\* handleEditNote, line 1043: formatTagInput(note.tags)
Tags_Format ==
    /\ Len(tagSteps) = 1
    /\ tagSteps' = Append(tagSteps, formatTagInput(Some(tagSteps[1])))
    /\ UNCHANGED tagValue
    /\ UNCHANGED <<routeVars, composer, panelVars, inviteVars, noteVars,
                   acceptVars, fetchVars, workspaceVars, vaultVars>>

\* handleSaveNote again, on the formatted field
Tags_Reparse ==
    /\ Len(tagSteps) = 2
    /\ tagSteps' = Append(tagSteps, parseTags(tagSteps[2]))
    /\ UNCHANGED tagValue
    /\ UNCHANGED <<routeVars, composer, panelVars, inviteVars, noteVars,
                   acceptVars, fetchVars, workspaceVars, vaultVars>>

InitTags ==
    /\ RouteIdle
    /\ AcceptIdle
    /\ FetchIdle
    /\ WorkspacesIdle
    /\ VaultIdle
    /\ PanelIdle
    /\ InviteIdle
    /\ NotesIdle
    /\ composer = emptyDraft
    /\ tagValue \in TagInputs
    /\ tagSteps = <<>>

NextTags == Tags_Parse \/ Tags_Format \/ Tags_Reparse

SpecTags == InitTags /\ [][NextTags]_vars

\* The pieces of the field between its runs of whitespace and commas, each
\* without its leading hash characters and with its letters in lower case,
\* the empty ones left out.
TagWords(value) ==
    LET pieces == Split(TagFieldSeparators, value)
        bare(w) == IF \A i \in 1..Len(w) : w[i] = "#" THEN <<>>
                   ELSE LET k == CHOOSE i \in 1..Len(w) :
                                    /\ w[i] # "#"
                                    /\ \A j \in 1..(i - 1) : w[j] = "#"
                        IN  SubSeq(w, k, Len(w))
        lower(w) == [i \in 1..Len(w) |->
                        IF w[i] = "A" THEN "a" ELSE w[i]]
    IN  SelectSeq([i \in 1..Len(pieces) |-> lower(bare(pieces[i]))],
                  LAMBDA w : w # <<>>)

\* The index of the first occurrence of w in list.
FirstIndex(list, w) ==
    CHOOSE i \in 1..Len(list) :
        list[i] = w /\ \A j \in 1..(i - 1) : list[j] # w

\* C21: parseTags returns a list with no duplicates and no empty element,
\* every element in lower case and without a leading hash character, the
\* first occurrences of the field's words kept in their order; and parsing
\* the formatted list again yields the same list.
C21_TagsNormalizedAndStable ==
    Len(tagSteps) >= 1 =>
        LET tags == tagSteps[1]
            words == TagWords(tagValue)
        IN  /\ \A i, j \in 1..Len(tags) : tags[i] = tags[j] => i = j
            /\ \A i \in 1..Len(tags) :
                  /\ tags[i] # <<>>
                  /\ tags[i][1] # "#"
                  /\ \A k \in 1..Len(tags[i]) : tags[i][k] # "A"
            /\ {tags[i] : i \in 1..Len(tags)}
                    = {words[i] : i \in 1..Len(words)}
            /\ \A i, j \in 1..Len(tags) :
                  i < j => FirstIndex(words, tags[i])
                                < FirstIndex(words, tags[j])
            /\ Len(tagSteps) = 3 => tagSteps[3] = tags

\* A field with a repeated tag, in two spellings, has gone through the
\* round trip.
C21_Witness ==
    /\ tagValue = <<"#", "A", ",", "a">>
    /\ tagSteps = << <<(<<"a">>)>>, <<"#", "a">>, <<(<<"a">>)>> >>

----------------------------------------------------------------------------
(* The invite-accepting route: POST of src/app/api/invite/accept/route.ts, *)
(* lines 10-73.  Requests are served concurrently: each await of the       *)
(* handler is a point where another request, to this route or to the       *)
(* invite-issuing one, may run.  The two tables are those of the issuing   *)
(* route.                                                                  *)

AcceptIds == {1, 2}

MissingTokenMsg == <<"Missing token.">>
InvalidInviteMsg == <<"Invalid invite.">>

\* NextResponse.json({ error }, { status })
AcceptFailure(status, message) ==
    [status |-> status, error |-> Some(message), result |-> None]

\* NextResponse.json({ status: "already-accepted" }), line 41, and
\* NextResponse.json({ status: "accepted" }), line 67
AcceptSuccess(result) ==
    [status |-> 200, error |-> None, result |-> Some(result)]

\* new Date().toISOString(), line 64
AcceptedAt == Some(<<"now">>)

\* Lines 30-34: .select("*").eq("token", token).maybeSingle(): the row,
\* null when there is none, an error when there are several.
InviteByToken(table, token) ==
    LET found == SelectSeq(table, LAMBDA row : row.token = token)
    IN  IF Len(found) = 1 THEN Some(found[1]) ELSE None

\* Mutant of UpsertMember: the row is written although the call reports
\* an error.
UpsertMember_Always(table, workspaceId, userId, role, ok) ==
    [table EXCEPT ![<<workspaceId, userId>>] = role]

\* .upsert({...}, { onConflict: "workspace_id,user_id" }), lines 44-53: the
\* table after the call, which writes nothing when it fails.
UpsertMember(table, workspaceId, userId, role, ok) ==
    IF ok THEN [table EXCEPT ![<<workspaceId, userId>>] = role] ELSE table

\* .update({ accepted_at }).eq("id", id), lines 62-65
MarkAccepted(table, id) ==
    [i \in 1..Len(table) |->
        IF table[i].id = id
        THEN [table[i] EXCEPT !.accepted_at = AcceptedAt]
        ELSE table[i]]

AcceptReturn(r, answer) ==
    acceptRuns' = [acceptRuns EXCEPT ![r].pc = "done",
                                     ![r].returned = Some(answer)]

AcceptFrame ==
    /\ UNCHANGED <<invitePayload, authorization, siteUrl, invitePc, userData,
                   inviteReturned>>
    /\ UNCHANGED <<routeVars, composer, panelVars, noteVars, tagVars,
                   fetchVars, workspaceVars, vaultVars>>

\* Lines 13-22: the body, its token and the bearer token.
Accept_POST_Start(r) ==
    /\ acceptRuns[r].pc = "received"
    /\ LET run == acceptRuns[r]
       IN  IF run.body = None
           THEN AcceptReturn(r, AcceptFailure(500, RequestJsonError))
           ELSE IF ~Truthy(Get(run.body).token)
           THEN AcceptReturn(r, AcceptFailure(400, MissingTokenMsg))
           ELSE IF ~Truthy(getBearerToken(run.authorization))
           THEN AcceptReturn(r, AcceptFailure(401, UnauthorizedMsg))
           ELSE acceptRuns' = [acceptRuns EXCEPT ![r].pc = "getUser"]
    /\ UNCHANGED <<workspace_members, workspace_invites>>
    /\ AcceptFrame

\* Lines 24-28: the service names the token's user, or answers with an
\* error.
Accept_POST_GetUser(r) ==
    /\ acceptRuns[r].pc = "getUser"
    /\ \E user \in {None,
                    UserOf(Get(getBearerToken(acceptRuns[r].authorization)))} :
          IF user = None
          THEN AcceptReturn(r, AcceptFailure(401, UnauthorizedMsg))
          ELSE acceptRuns' = [acceptRuns EXCEPT ![r].pc = "select",
                                                ![r].userData = user]
    /\ UNCHANGED <<workspace_members, workspace_invites>>
    /\ AcceptFrame

\* Lines 30-42: the invite row of the token, read once.
Accept_POST_Select(r) ==
    /\ acceptRuns[r].pc = "select"
    /\ \E invite \in {None, InviteByToken(workspace_invites,
                                Get(Get(acceptRuns[r].body).token))} :
          IF invite = None
          THEN AcceptReturn(r, AcceptFailure(404, InvalidInviteMsg))
          ELSE IF Get(invite).accepted_at # None
          THEN AcceptReturn(r, AcceptSuccess("already-accepted"))
          ELSE acceptRuns' = [acceptRuns EXCEPT ![r].pc = "upsert",
                                                ![r].invite = invite]
    /\ UNCHANGED <<workspace_members, workspace_invites>>
    /\ AcceptFrame

\* Lines 44-60: the membership upsert and its error.
Accept_POST_Upsert(r) ==
    /\ acceptRuns[r].pc = "upsert"
    /\ LET invite == Get(acceptRuns[r].invite)
       IN  \E ok \in BOOLEAN :
              /\ workspace_members' =
                    UpsertMember(workspace_members, invite.workspace_id,
                                 Get(acceptRuns[r].userData), invite.role, ok)
              /\ IF ok
                 THEN acceptRuns' = [acceptRuns EXCEPT ![r].pc = "update"]
                 ELSE AcceptReturn(r, AcceptFailure(500, DatabaseError))
    /\ UNCHANGED workspace_invites
    /\ AcceptFrame

\* Lines 62-67: the invite is marked, the result of the call is not read,
\* and the route answers "accepted".
Accept_POST_Update(r) ==
    /\ acceptRuns[r].pc = "update"
    /\ \E ok \in BOOLEAN :
          workspace_invites' =
              IF ok THEN MarkAccepted(workspace_invites,
                                      Get(acceptRuns[r].invite).id)
              ELSE workspace_invites
    /\ AcceptReturn(r, AcceptSuccess("accepted"))
    /\ UNCHANGED workspace_members
    /\ AcceptFrame

\* The bodies of the accepting requests: not JSON, without a token, with
\* an empty one, with a token the issuing route may have made.
AcceptBodies ==
    {None, Some([token |-> None]), Some([token |-> Some(<<>>)]),
     Some([token |-> Some(<<"k1">>)]), Some([token |-> Some(<<"k2">>)])}

AcceptAuthorizations ==
    {None, Some(<<"Bearer", " ", "t1">>), Some(<<"Bearer", " ", "t2">>),
     Some(<<"Bearer", " ", "tx">>)}

AcceptRequests ==
    [body : AcceptBodies, authorization : AcceptAuthorizations,
     pc : {"received"}, userData : {None}, invite : {None},
     returned : {None}]

\* The memberships before the requests: u1 owns both workspaces, u2 is a
\* viewer of w2 and anything in w1.
AcceptMemberTables ==
    {t \in MemberTables : t[<<(<<"w1">>), "u1">>] = "owner"}

\* The issuing request served next to the accepting ones: the owner u1
\* invites an address, of u2 or of nobody yet, to w1.
AcceptIssuePayloads ==
    [workspaceId : {Some(<<"w1">>)},
     email : {Some(<<"B", " ">>), Some(<<"c">>)},
     role : {Some("viewer"), Some("editor")}]

InitAccept ==
    /\ RouteIdle
    /\ PanelIdle
    /\ NotesIdle
    /\ TagsIdle
    /\ FetchIdle
    /\ WorkspacesIdle
    /\ VaultIdle
    /\ composer = emptyDraft
    /\ workspace_members \in AcceptMemberTables
    /\ workspace_invites = <<>>
    /\ invitePayload \in {Some(b) : b \in AcceptIssuePayloads}
    /\ authorization = Some(<<"Bearer", " ", "t1">>)
    /\ siteUrl = <<>>
    /\ invitePc = "received"
    /\ userData = None
    /\ inviteReturned = <<>>
    /\ acceptRuns \in [AcceptIds -> AcceptRequests]

NextAccept ==
    \/ Invite_POST_Start
    \/ Invite_POST_GetUser
    \/ Invite_POST_Membership
    \/ Invite_POST_Write
    \/ \E r \in AcceptIds :
          \/ Accept_POST_Start(r)
          \/ Accept_POST_GetUser(r)
          \/ Accept_POST_Select(r)
          \/ Accept_POST_Upsert(r)
          \/ Accept_POST_Update(r)

SpecAccept == InitAccept /\ [][NextAccept]_vars

\* The requests that were answered "accepted" for a token.
AcceptedWith(token) ==
    {r \in AcceptIds :
        /\ acceptRuns[r].returned = Some(AcceptSuccess("accepted"))
        /\ Get(acceptRuns[r].body).token = Some(token)}

\* C22: of the accepting requests that carry one token, at most one
\* performs the membership upsert and is answered "accepted".
C22_TokenAcceptedOnce ==
    \A token \in InviteTokens : Cardinality(AcceptedWith(token)) <= 1

\* C23: every workspace that had an owner (here each one: u1 owns both
\* before the requests) still has a member with role owner after any
\* sequence of steps of the issuing and the accepting route.
C23_OwnerKept ==
    \A workspaceId \in Workspaces :
        \E userId \in Users :
            workspace_members[<<workspaceId, userId>>] = "owner"

\* The accepting requests whose step this is.
AcceptStepOf(r) == acceptRuns'[r] # acceptRuns[r]

AcceptWrites ==
    \/ workspace_members' # workspace_members
    \/ workspace_invites' # workspace_invites

\* C27: a request of the accepting route that is answered anything but
\* "accepted" has written to neither table: the steps that end a request
\* otherwise write nothing, and a request that has written (it is past its
\* upsert, at the update of line 62) can only be answered "accepted".
C27_OtherOutcomesWriteNothing ==
    [][\A r \in AcceptIds :
          AcceptStepOf(r) =>
            /\ (/\ acceptRuns'[r].returned # None
                /\ acceptRuns'[r].returned
                        # Some(AcceptSuccess("accepted")))
                  => /\ ~AcceptWrites
                     /\ acceptRuns[r].pc
                            \in {"received", "getUser", "select", "upsert"}
            /\ (acceptRuns[r].pc \in {"received", "getUser", "select"})
                  => ~AcceptWrites]_vars

\* An invite was issued; one request was answered 500 for a failed
\* membership upsert, and left u2 out of the workspace and the invite
\* unaccepted; the other found the same invite and was answered 404 for a
\* failed query.
C27_Witness ==
    /\ Len(workspace_invites) = 1
    /\ workspace_invites[1].accepted_at = None
    /\ workspace_members[<<(<<"w1">>), "u2">>] = "none"
    /\ acceptRuns[1].returned = Some(AcceptFailure(500, DatabaseError))
    /\ acceptRuns[1].userData = Some("u2")
    /\ acceptRuns[2].returned = Some(AcceptFailure(404, InvalidInviteMsg))
    /\ acceptRuns[2].body = acceptRuns[1].body

----------------------------------------------------------------------------
(* The busy flag of handleAiAction (src/app/dashboard/page.tsx, lines      *)
(* 1240-1312) over time.  A fetch that was started settles: it resolves or *)
(* rejects, and the handler runs on from its await.                        *)

\* The handler resumes after its awaits (lines 1252-1271).
AiSettles ==
    \/ \E i \in 1..MaxAiResults : \E a \in AiAnswers :
            handleAiAction_Resume(i, a)
    \/ \E i \in 1..MaxAiResults : handleAiAction_Throws(i)

SpecPanelLive == InitPanel /\ [][NextPanel]_vars /\ WF_vars(AiSettles)

\* C24: whenever handleAiAction has set the busy flag, the flag is null
\* again later, whether the request succeeds, the route answers with an
\* error, or the fetch or the decoding of the response throws.
C24_BusyReset == (aiBusy # None) ~> (aiBusy = None)

----------------------------------------------------------------------------
(* fetchNotes (src/app/dashboard/page.tsx, lines 727-829) and the effect   *)
(* that calls it 300 ms after the settings change (lines 833-840).  A      *)
(* fetchNotes is a closure over the settings of the render that made it.   *)
(* The search term and the tag, date and content filters stay at their    *)
(* initial values, so that the query is the one of lines 732-735 and 766;  *)
(* the settings that change are the active workspace and the sort order.   *)

\* The fetchNotes calls that wait for their query at one time.
MaxFetches == 2

SortOrders == {"newest", "oldest"}

\* The values fetchNotes closes over (lines 819-829), of this render.
FetchSettings ==
    [activeWorkspaceId |-> activeWorkspaceId, sortOrder |-> sortOrder]

\* The ids of a set of rows in ascending order of created_at (the order in
\* which the rows were made).
RECURSIVE Ascending(_)
Ascending(ids) ==
    IF ids = {} THEN <<>>
    ELSE LET first == CHOOSE i \in ids : \A j \in ids : i <= j
         IN  <<first>> \o Ascending(ids \ {first})

Reverse(list) == [i \in 1..Len(list) |-> list[Len(list) + 1 - i]]

\* Lines 732-735 and 766: the rows of the workspace, ordered by created_at,
\* ascending when the sort order is "oldest".
NotesQuery(table, settings) ==
    LET ids == {row.id : row \in
                   {r \in table :
                       Some(r.workspace_id) = settings.activeWorkspaceId}}
    IN  IF settings.sortOrder = "oldest" THEN Ascending(ids)
        ELSE Reverse(Ascending(ids))

FetchFrame == UNCHANGED <<routeVars, composer, panelVars, inviteVars,
                          noteVars, tagVars, acceptVars, workspaceVars,
                          vaultVars>>

\* Line 1963: the sort order control
setSortOrder(order) ==
    /\ order # sortOrder
    /\ sortOrder' = order
    /\ UNCHANGED <<notes, notesError, fetchDeps, fetchTimer, fetchRuns>>
    /\ FetchFrame

\* Lines 833-840: after a render whose fetchNotes, session or workspace is
\* new, the cleanup of the last run clears its timer and the effect sets
\* one for the new fetchNotes.
fetchNotes_Effect ==
    /\ fetchDeps # Some(FetchSettings)
    /\ fetchDeps' = Some(FetchSettings)
    /\ fetchTimer' = IF session = None \/ activeWorkspaceId = None THEN None
                     ELSE Some(FetchSettings)
    /\ UNCHANGED <<sortOrder, notes, notesError, fetchRuns>>
    /\ FetchFrame

\* Lines 835-837 and 727-767: the timer fires and fetchNotes runs up to
\* the await of its query.
fetchNotes_Start ==
    /\ fetchTimer # None
    /\ fetchDeps = Some(FetchSettings)
    /\ Len(fetchRuns) < MaxFetches
    /\ fetchTimer' = None
    /\ IF supabase = None \/ session = None
            \/ Get(fetchTimer).activeWorkspaceId = None
       THEN UNCHANGED <<notesError, fetchRuns>>
       ELSE /\ notesError' = None
            /\ fetchRuns' = Append(fetchRuns, Get(fetchTimer))
    /\ UNCHANGED <<sortOrder, notes, fetchDeps>>
    /\ FetchFrame

\* Lines 767 and 802-817: the query of call i answers, with an error or
\* with the rows; the rows have no attachment to sign.
fetchNotes_Resume(i, failed) ==
    /\ i \in 1..Len(fetchRuns)
    /\ IF failed
       THEN /\ notesError' = Some(DatabaseError)
            /\ UNCHANGED notes
       ELSE /\ notes' = NotesQuery(notesTable, fetchRuns[i])
            /\ UNCHANGED notesError
    /\ fetchRuns' = Without(fetchRuns, i)
    /\ UNCHANGED <<sortOrder, fetchDeps, fetchTimer>>
    /\ FetchFrame

\* A signed-in member of two workspaces, the first with two notes.
InitFetch ==
    /\ RouteIdle
    /\ PanelIdle
    /\ InviteIdle
    /\ TagsIdle
    /\ AcceptIdle
    /\ WorkspacesIdle
    /\ VaultIdle
    /\ composer = emptyDraft
    /\ supabase = Some("client")
    /\ session = Some([user |-> "u1"])
    /\ workspaces = <<[workspace_id |-> <<"w1">>, role |-> "owner"],
                      [workspace_id |-> <<"w2">>, role |-> "editor"]>>
    /\ activeWorkspaceId = Some(<<"w1">>)
    /\ editingNote = None
    /\ removeAttachment = FALSE
    /\ noteLimit = None
    /\ notesTable = {[id |-> i, workspace_id |-> <<"w1">>,
                      attachment_path |-> None] : i \in NoteIds}
    /\ media = {}
    /\ noteCount = CountNotes(notesTable)
    /\ busyAction = FALSE
    /\ actionError = None
    /\ lastCalls = <<>>
    /\ sortOrder = "newest"
    /\ notes = <<>>
    /\ notesError = None
    /\ fetchDeps = None
    /\ fetchTimer = None
    /\ fetchRuns = <<>>

NextFetch ==
    \/ \E order \in SortOrders : setSortOrder(order)
    \/ \E i \in 1..Len(workspaces) :
            handleWorkspaceSwitch(workspaces[i].workspace_id)
    \/ fetchNotes_Effect
    \/ fetchNotes_Start
    \/ \E i \in 1..MaxFetches : \E failed \in BOOLEAN :
            fetchNotes_Resume(i, failed)

SpecFetch == InitFetch /\ [][NextFetch]_vars

\* C25: once the effect has run for the current settings, no timer is
\* pending and every fetchNotes call has completed, the last of them
\* without an error, the notes state holds the result of the query for the
\* current workspace and sort order.
C25_NotesAreCurrent ==
    (/\ fetchDeps = Some(FetchSettings)
     /\ fetchTimer = None
     /\ fetchRuns = <<>>
     /\ notesError = None)
        => notes = NotesQuery(notesTable, FetchSettings)

----------------------------------------------------------------------------
(* fetchWorkspaces (src/app/dashboard/page.tsx, lines 621-685), called by  *)
(* the effect of lines 711-715 after every update of the session (lines    *)
(* 569-582).  A call that waits at one of its awaits leaves the component  *)
(* free to start another.  The memberships are the table of the invite     *)
(* routes; the workspaces table holds the rows the calls insert.           *)

WorkspaceRunIds == {1, 2}

PersonalName == <<"Personal">>

\* The sequences that list each element of a set once.
Orderings(set) ==
    {list \in [1..Cardinality(set) -> set] :
        \A i, j \in 1..Cardinality(set) : list[i] = list[j] => i = j}

\* Lines 626-630: the rows of the user, by created_at; the table of this
\* model does not keep created_at, and every order of the rows is one the
\* query may give.
MembershipLists(table, userId) ==
    LET rows == {[workspace_id |-> w, role |-> table[<<w, userId>>]] :
                    w \in {v \in Workspaces : table[<<v, userId>>] # "none"}}
    IN  Orderings(rows)

\* The ids the workspaces table has not given to a row.
FreeWorkspaceIds == Workspaces \ {row.id : row \in workspacesTable}

WorkspaceRunIdle == [pc |-> "idle", workspace |-> None]

WorkspaceFrame ==
    /\ UNCHANGED <<workspace_invites, invitePayload, authorization, siteUrl,
                   invitePc, userData, inviteReturned>>
    /\ UNCHANGED <<supabase, session, editingNote, removeAttachment,
                   noteLimit, noteCount, busyAction, actionError, notesTable,
                   media, lastCalls>>
    /\ UNCHANGED <<routeVars, composer, panelVars, tagVars, acceptVars,
                   fetchVars, vaultVars>>

\* Lines 674-680: setWorkspaces and setActiveWorkspaceId, and the end of the
\* call.
fetchWorkspaces_Finish(r, memberships) ==
    /\ workspaces' = memberships
    /\ activeWorkspaceId' =
            IF /\ activeWorkspaceId # None
               /\ \E i \in 1..Len(memberships) :
                     memberships[i].workspace_id = Get(activeWorkspaceId)
            THEN activeWorkspaceId
            ELSE IF memberships = <<>> THEN None
            ELSE Some(memberships[1].workspace_id)
    /\ workspaceRuns' = [workspaceRuns EXCEPT ![r] = WorkspaceRunIdle]

\* setWorkspaceError(message), setWorkspaceBusy(false), return
fetchWorkspaces_Fail(r) ==
    /\ workspaceError' = Some(DatabaseError)
    /\ workspaceRuns' = [workspaceRuns EXCEPT ![r] = WorkspaceRunIdle]
    /\ UNCHANGED <<workspaces, activeWorkspaceId>>

\* Lines 711-715 and 621-630: the session was set, the effect calls
\* fetchWorkspaces, which runs up to the await of its query.
fetchWorkspaces_Start(r) ==
    /\ workspaceRuns[r].pc = "idle"
    /\ supabase # None
    /\ session # None
    /\ workspaceError' = None
    /\ workspaceRuns' = [workspaceRuns EXCEPT ![r].pc = "select"]
    /\ UNCHANGED <<workspace_members, workspacesTable, workspaces,
                   activeWorkspaceId>>
    /\ WorkspaceFrame

\* Lines 626-640 and 674-680: the memberships of the user
fetchWorkspaces_Select(r) ==
    /\ workspaceRuns[r].pc = "select"
    /\ \E failed \in BOOLEAN :
          IF failed THEN fetchWorkspaces_Fail(r)
          ELSE \E memberships \in
                    MembershipLists(workspace_members, Get(session).user) :
                  IF memberships = <<>>
                  THEN /\ workspaceRuns' =
                            [workspaceRuns EXCEPT ![r].pc = "insertWorkspace"]
                       /\ UNCHANGED <<workspaces, activeWorkspaceId,
                                      workspaceError>>
                  ELSE /\ fetchWorkspaces_Finish(r, memberships)
                       /\ UNCHANGED workspaceError
    /\ UNCHANGED <<workspace_members, workspacesTable>>
    /\ WorkspaceFrame

\* Lines 640-654: the workspace "Personal" is inserted.
fetchWorkspaces_InsertWorkspace(r) ==
    /\ workspaceRuns[r].pc = "insertWorkspace"
    /\ \E failed \in (IF FreeWorkspaceIds = {} THEN {TRUE} ELSE BOOLEAN) :
          IF failed
          THEN /\ fetchWorkspaces_Fail(r)
               /\ UNCHANGED workspacesTable
          ELSE \E id \in FreeWorkspaceIds :
                 LET workspace == [id |-> id, name |-> PersonalName,
                                   owner_id |-> Get(session).user]
                 IN  /\ workspacesTable' = workspacesTable \cup {workspace}
                     /\ workspaceRuns' =
                           [workspaceRuns EXCEPT
                               ![r].pc = "insertMember",
                               ![r].workspace = Some(workspace)]
                     /\ UNCHANGED <<workspaces, activeWorkspaceId,
                                    workspaceError>>
    /\ UNCHANGED workspace_members
    /\ WorkspaceFrame

\* Lines 656-680: the owner membership is inserted.
fetchWorkspaces_InsertMember(r) ==
    /\ workspaceRuns[r].pc = "insertMember"
    /\ LET workspace == Get(workspaceRuns[r].workspace)
           userId == Get(session).user
       IN  \E failed \in BOOLEAN :
              IF failed
              THEN /\ fetchWorkspaces_Fail(r)
                   /\ UNCHANGED workspace_members
              ELSE /\ workspace_members' =
                         [workspace_members EXCEPT
                             ![<<workspace.id, userId>>] = "owner"]
                   /\ fetchWorkspaces_Finish(r,
                         <<[workspace_id |-> workspace.id,
                            role |-> "owner"]>>)
                   /\ UNCHANGED workspaceError
    /\ UNCHANGED workspacesTable
    /\ WorkspaceFrame

\* A signed-in user without a membership; no workspace yet.
InitWorkspaces ==
    /\ RouteIdle
    /\ PanelIdle
    /\ TagsIdle
    /\ AcceptIdle
    /\ FetchIdle
    /\ VaultIdle
    /\ composer = emptyDraft
    /\ workspace_members = [key \in Workspaces \X Users |-> "none"]
    /\ workspace_invites = <<>>
    /\ invitePayload = None
    /\ authorization = None
    /\ siteUrl = <<>>
    /\ invitePc = "received"
    /\ userData = None
    /\ inviteReturned = <<>>
    /\ supabase = Some("client")
    /\ session = Some([user |-> "u1"])
    /\ workspaces = <<>>
    /\ activeWorkspaceId = None
    /\ editingNote = None
    /\ removeAttachment = FALSE
    /\ noteLimit = None
    /\ noteCount = 0
    /\ busyAction = FALSE
    /\ actionError = None
    /\ notesTable = {}
    /\ media = {}
    /\ lastCalls = <<>>
    /\ workspacesTable = {}
    /\ workspaceError = None
    /\ workspaceRuns = [r \in WorkspaceRunIds |-> WorkspaceRunIdle]

NextWorkspaces ==
    \E r \in WorkspaceRunIds :
        \/ fetchWorkspaces_Start(r)
        \/ fetchWorkspaces_Select(r)
        \/ fetchWorkspaces_InsertWorkspace(r)
        \/ fetchWorkspaces_InsertMember(r)

SpecWorkspaces == InitWorkspaces /\ [][NextWorkspaces]_vars

\* C26: the fetchWorkspaces calls of a user without a membership make at
\* most one workspace "Personal", and every workspace row has the owner
\* membership of its owner, but for the row whose membership a call is
\* about to insert.
C26_OnePersonalWorkspace ==
    /\ Cardinality(workspacesTable) <= 1
    /\ \A workspace \in workspacesTable :
          \/ workspace_members[<<workspace.id, workspace.owner_id>>] = "owner"
          \/ \E r \in WorkspaceRunIds :
                /\ workspaceRuns[r].pc = "insertMember"
                /\ workspaceRuns[r].workspace = Some(workspace)

----------------------------------------------------------------------------
(* The notes table and the media bucket after the note handlers.           *)

\* C28: every note row with a non-null attachment_path refers to an object
\* of the media bucket, after any saves and deletes, failed ones included.
C28_AttachmentsExist ==
    \A row \in notesTable :
        row.attachment_path # None => Get(row.attachment_path) \in media

\* C29: under a finite note limit the workspace never holds more notes
\* than the limit allows.
C29_LimitKept ==
    resolveLimit(noteLimit) # None =>
        CountNotes(notesTable) <= Get(resolveLimit(noteLimit))

----------------------------------------------------------------------------
(* buildVaultContext (src/app/dashboard/page.tsx, lines 546-567).  Its     *)
(* limits count characters, and a text is kept here as a sequence of       *)
(* pieces, each a text with the number of characters it stands for: a      *)
(* literal of the code with its length, or a character repeated n times.   *)

\* Line 558: content.slice(0, 800)
SnippetLength == 800

\* Line 560: total + block.length > 6000
ContextLength == 6000

\* Line 563: chunks.length >= 10
MaxChunks == 10

\* The notes handed to buildVaultContext.
MaxVaultNotes == 11

Piece(text, n) == [text |-> text, n |-> n]

\* String.prototype.length
RECURSIVE VaultLength(_)
VaultLength(s) ==
    IF s = <<>> THEN 0 ELSE Head(s).n + VaultLength(Tail(s))

\* String.prototype.trim
RECURSIVE VaultTrimStart(_)
VaultTrimStart(s) ==
    IF s # <<>> /\ Head(s).text \in Whitespace THEN VaultTrimStart(Tail(s))
    ELSE s

RECURSIVE VaultTrimEnd(_)
VaultTrimEnd(s) ==
    IF s # <<>> /\ s[Len(s)].text \in Whitespace
    THEN VaultTrimEnd(SubSeq(s, 1, Len(s) - 1))
    ELSE s

VaultTrim(s) == VaultTrimEnd(VaultTrimStart(s))

\* String.prototype.slice(0, k)
RECURSIVE VaultSlice(_, _)
VaultSlice(s, k) ==
    IF s = <<>> \/ k <= 0 THEN <<>>
    ELSE IF Head(s).n <= k
    THEN <<Head(s)>> \o VaultSlice(Tail(s), k - Head(s).n)
    ELSE <<Piece(Head(s).text, k)>>

\* Array.prototype.join
RECURSIVE VaultJoin(_, _)
VaultJoin(list, sep) ==
    IF list = <<>> THEN <<>>
    ELSE IF Len(list) = 1 THEN list[1]
    ELSE list[1] \o sep \o VaultJoin(Tail(list), sep)

\* Lines 548-549: new Date(note.updated_at || note.created_at).getTime()
VaultTime(note) ==
    IF note.updated_at # None THEN Get(note.updated_at) ELSE note.created_at

\* Lines 547-550: [...entries].sort(...), a stable sort, the most recent
\* note first.
RECURSIVE VaultSorted(_)
VaultSorted(entries) ==
    IF entries = <<>> THEN <<>>
    ELSE LET front == VaultSorted(SubSeq(entries, 1, Len(entries) - 1))
             note == entries[Len(entries)]
             ahead == SelectSeq(front,
                         LAMBDA e : VaultTime(e) >= VaultTime(note))
             behind == SelectSeq(front,
                         LAMBDA e : VaultTime(e) < VaultTime(note))
         IN  ahead \o <<note>> \o behind

\* Line 555: note.content?.trim()
VaultContent(note) ==
    IF note.content = None THEN None ELSE Some(VaultTrim(Get(note.content)))

\* Line 556: !content && !note.title
VaultSkips(note) == ~Truthy(VaultContent(note)) /\ note.title = <<>>

\* Line 557
VaultTags(note) ==
    IF Truthy(note.tags)
    THEN <<Piece("Tags: ", 6)>> \o VaultJoin(Get(note.tags), <<Piece(", ", 2)>>)
    ELSE <<Piece("Tags: none", 10)>>

\* Mutant of VaultSnippet: the content is not cut.
VaultSnippet_Whole(content) ==
    IF Truthy(content) THEN Get(content) ELSE <<Piece("No content", 10)>>

\* Line 558
VaultSnippet(content) ==
    IF Truthy(content) THEN VaultSlice(Get(content), SnippetLength)
    ELSE <<Piece("No content", 10)>>

\* Line 559
VaultBlock(note) ==
    <<Piece("Title: ", 7)>> \o note.title \o <<Piece(NL, 1)>>
        \o VaultTags(note) \o <<Piece(NL, 1)>>
        \o <<Piece("Content: ", 9)>> \o VaultSnippet(VaultContent(note))

\* Lines 554-565: the loop, from note i of the sorted list on.
RECURSIVE VaultLoop(_, _, _, _)
VaultLoop(sorted, i, chunks, total) ==
    IF i > Len(sorted) THEN chunks
    ELSE IF VaultSkips(sorted[i]) THEN VaultLoop(sorted, i + 1, chunks, total)
    ELSE LET block == VaultBlock(sorted[i])
         IN  IF total + VaultLength(block) > ContextLength THEN chunks
             ELSE IF Len(chunks) + 1 >= MaxChunks THEN Append(chunks, block)
             ELSE VaultLoop(sorted, i + 1, Append(chunks, block),
                            total + VaultLength(block))

\* const chunks (line 551) when the loop has ended
VaultChunks(entries) == VaultLoop(VaultSorted(entries), 1, <<>>, 0)

\* Lines 546-567
buildVaultContext(entries) ==
    VaultJoin(VaultChunks(entries), <<Piece(NL, 2)>>)

\* Line 1244: buildVaultContext(notes)
Vault_Build ==
    /\ vaultContext = None
    /\ vaultContext' = Some([chunks |-> VaultChunks(vaultNotes),
                             text |-> buildVaultContext(vaultNotes)])
    /\ UNCHANGED vaultNotes
    /\ UNCHANGED <<routeVars, composer, panelVars, inviteVars, noteVars,
                   tagVars, acceptVars, fetchVars, workspaceVars>>

\* The kinds of note of the inputs: without title and content; with a
\* title only; short, with a tag and spaces around its content; longer
\* than a snippet; with content and no title.
VaultShapes == {"blank", "titled", "short", "long", "untitled"}

\* The ways the dates of the notes run: with the list, against it, all the
\* same, and with the list but for the first note, updated last.
VaultDates == {"newest first", "oldest first", "same", "touched"}

VaultNote(shape, i, n, dates) ==
    [title |-> IF shape \in {"blank", "untitled"} THEN <<>>
               ELSE <<Piece("t", i)>>,
     content |-> CASE shape = "blank" -> Some(<<Piece(" ", 2)>>)
                   [] shape = "titled" -> None
                   [] shape = "short" ->
                        Some(<<Piece(" ", 1), Piece("a", 20), Piece(NL, 1)>>)
                   [] shape = "long" -> Some(<<Piece("a", 1000)>>)
                   [] OTHER -> Some(<<Piece("b", 30 + i)>>),
     tags |-> IF shape = "short"
              THEN Some(<< <<Piece("x", 3)>>, <<Piece("y", 2)>> >>)
              ELSE None,
     created_at |-> CASE dates = "newest first" -> n + 1 - i
                      [] dates = "same" -> 1
                      [] OTHER -> i,
     updated_at |-> IF dates = "touched" /\ i = 1 THEN Some(n + 1)
                    ELSE None]

\* The lists of at most max notes: two runs of notes of one kind each, and
\* one more note or none.
VaultInputs(max) ==
    UNION {UNION {UNION {
        {[i \in 1..(k1 + k2 + k3) |->
            VaultNote(IF i <= k1 THEN s1 ELSE IF i <= k1 + k2 THEN s2 ELSE s3,
                      i, k1 + k2 + k3, dates)] :
            s1 \in VaultShapes, s2 \in VaultShapes, s3 \in VaultShapes,
            dates \in VaultDates} :
        k3 \in {k \in {0, 1} : k1 + k2 + k <= max}} :
        k2 \in 0..(max - k1)} :
        k1 \in 0..max}

InitVault ==
    /\ RouteIdle
    /\ PanelIdle
    /\ InviteIdle
    /\ NotesIdle
    /\ TagsIdle
    /\ AcceptIdle
    /\ FetchIdle
    /\ WorkspacesIdle
    /\ composer = emptyDraft
    /\ vaultNotes \in VaultInputs(MaxVaultNotes)
    /\ vaultContext = None

NextVault == Vault_Build

SpecVault == InitVault /\ [][NextVault]_vars

\* The notes of the input that have content or a title.
VaultKept ==
    {i \in 1..Len(vaultNotes) :
        \/ vaultNotes[i].title # <<>>
        \/ /\ vaultNotes[i].content # None
           /\ \E p \in 1..Len(Get(vaultNotes[i].content)) :
                 Get(vaultNotes[i].content)[p].text \notin Whitespace}

\* The date buildVaultContext orders a note by.
VaultRecency(i) ==
    IF vaultNotes[i].updated_at = None THEN vaultNotes[i].created_at
    ELSE Get(vaultNotes[i].updated_at)

\* The place of a kept note among the kept ones, the most recent first and
\* notes of one date in the order of the input.
VaultRank(i) ==
    1 + Cardinality({j \in VaultKept :
            \/ VaultRecency(j) > VaultRecency(i)
            \/ VaultRecency(j) = VaultRecency(i) /\ j < i})

\* The part of a block after its "Content: " label.
BlockContent(block) ==
    LET at == CHOOSE p \in 1..Len(block) : block[p].text = "Content: "
    IN  SubSeq(block, at + 1, Len(block))

\* The number of characters of a text, counted piece by piece.
Characters(s) ==
    LET upTo[k \in 0..Len(s)] == IF k = 0 THEN 0 ELSE upTo[k - 1] + s[k].n
    IN  upTo[Len(s)]

\* The title a block shows: the pieces between its label and the end of
\* its first line.
BlockTitle(block) ==
    LET eol == CHOOSE p \in 1..Len(block) :
                    /\ block[p] = Piece(NL, 1)
                    /\ \A q \in 1..(p - 1) : block[q].text # NL
    IN  SubSeq(block, 2, eol - 1)

\* C30: buildVaultContext returns at most 10 blocks, of at most 6000
\* characters together, each with at most 800 characters of content; block
\* k is made of the k-th most recent of the notes that have content or a
\* title, so that no block is made of a note with neither.
C30_VaultContextBounded ==
    vaultContext # None =>
        LET chunks == Get(vaultContext).chunks
            sum[k \in 0..Len(chunks)] ==
                IF k = 0 THEN 0 ELSE sum[k - 1] + Characters(chunks[k])
        IN  /\ Len(chunks) <= 10
            /\ sum[Len(chunks)] <= 6000
            /\ \A k \in 1..Len(chunks) :
                  /\ Characters(BlockContent(chunks[k])) <= 800
                  /\ \E i \in VaultKept :
                        /\ VaultRank(i) = k
                        /\ BlockTitle(chunks[k]) = vaultNotes[i].title

\* Eleven notes, the oldest first, eight of them longer than a snippet and
\* the last without title and content: the context holds the seven most
\* recent of the long ones, cut to 800 characters each, and stops at the
\* eighth, which would pass 6000.
C30_Witness ==
    /\ Len(vaultNotes) = 11
    /\ \A i \in 1..11 : vaultNotes[i].created_at = i
    /\ 11 \notin VaultKept
    /\ \A i \in 3..10 :
          /\ vaultNotes[i].content # None
          /\ Characters(Get(vaultNotes[i].content)) = 1000
    /\ vaultContext # None
    /\ Len(Get(vaultContext).chunks) = 7
    /\ BlockTitle(Get(vaultContext).chunks[1]) = vaultNotes[10].title
    /\ Characters(BlockContent(Get(vaultContext).chunks[1])) = 800

====
